---- MODULE Spec2Model ----
(***************************************************************************)
(* A model of the function-graph engine (FuncGraph) and of the randomized  *)
(* composer (RandomComposer) of composer.py.                               *)
(*                                                                         *)
(* Encodings.  A Python dict is a sequence of <<key, value>> pairs in      *)
(* insertion order.  An optional value (None or x) is None == <<>> or the  *)
(* value itself where the value is a non-empty sequence, and <<x>> where   *)
(* the value may be an empty tuple.  A Python value is a record            *)
(* [t, i, s]: its type tag, its integer and its string.                    *)
(***************************************************************************)
EXTENDS Integers, Sequences, FiniteSets, TLC

\* ------------------------------------------------------------- bounds
\* construction statements (add, feed, an ordering assignment) per graph
MaxSteps == 5

\* ---------------------------------------------------------- utilities
None == <<>>

SINK_KWD == "_"
OUT_KWD == "out"

Range(s) == {s[i] : i \in 1..Len(s)}

\* dict: membership, lookup, assignment (an existing key keeps its place)
DictHas(d, k) == \E i \in 1..Len(d) : d[i][1] = k
DictGet(d, k) == d[CHOOSE i \in 1..Len(d) : d[i][1] = k][2]
DictSet(d, k, v) ==
    IF DictHas(d, k)
    THEN [i \in 1..Len(d) |-> IF d[i][1] = k THEN <<k, v>> ELSE d[i]]
    ELSE Append(d, <<k, v>>)
DictKeys(d) == [i \in 1..Len(d) |-> d[i][1]]
DictValues(d) == [i \in 1..Len(d) |-> d[i][2]]

\* collections.Counter of a sequence, compared as Counter.__eq__ does
CountOf(s, x) == Cardinality({i \in 1..Len(s) : s[i] = x})
CounterEq(s, t) == \A x \in Range(s) \cup Range(t) : CountOf(s, x) = CountOf(t, x)

\* ------------------------------------------------------ Python values
IntV(n) == [t |-> "int", i |-> n, s |-> ""]
StrV(str) == [t |-> "str", i |-> 0, s |-> str]
FloatV(n) == [t |-> "float", i |-> n, s |-> ""]
NoValue == [t |-> "NoneType", i |-> 0, s |-> ""]
Raised(e) == [t |-> "raise", i |-> 0, s |-> e]

RECURSIVE StrTimes(_, _)
StrTimes(str, n) == IF n <= 0 THEN "" ELSE str \o StrTimes(str, n - 1)

\* x + y, x - y, x * y on the values above
PyAdd(x, y) ==
    IF x.t = "int" /\ y.t = "int" THEN IntV(x.i + y.i)
    ELSE IF x.t = "str" /\ y.t = "str" THEN StrV(x.s \o y.s)
    ELSE Raised("TypeError")
PySub(x, y) ==
    IF x.t = "int" /\ y.t = "int" THEN IntV(x.i - y.i) ELSE Raised("TypeError")
PyMul(x, y) ==
    IF x.t = "int" /\ y.t = "int" THEN IntV(x.i * y.i)
    ELSE IF x.t = "str" /\ y.t = "int" THEN StrV(StrTimes(x.s, y.i))
    ELSE IF x.t = "int" /\ y.t = "str" THEN StrV(StrTimes(y.s, x.i))
    ELSE Raised("TypeError")

\* len(x), float(x), int(x); a float is held as the integer it equals
PyLen(x) == IF x.t = "str" THEN IntV(Len(x.s)) ELSE Raised("TypeError")
PyFloat(x) ==
    IF x.t \in {"int", "float"} THEN FloatV(x.i)
    ELSE IF x.t = "str" THEN Raised("ValueError") ELSE Raised("TypeError")
PyInt(x) ==
    IF x.t \in {"int", "float"} THEN IntV(x.i)
    ELSE IF x.t = "str" THEN Raised("ValueError") ELSE Raised("TypeError")

\* ------------------------------------------------- the function library
\* functions a client wraps in a FuncVertex, each declared
\* (x: int) -> tuple[int, int]: pair returns two values, pair_short one and
\* pair_long three
TupleV(items) == [t |-> "tuple", i |-> 0, s |-> "", items |-> items]
ClientSignature(func) ==
    [inp |-> << <<"x", "int">> >>, ret |-> "tuple", args |-> << "int", "int" >>]
ClientFunc(func, kw) ==
    LET x == DictGet(kw, "x")
    IN  IF x.t # "int" THEN Raised("TypeError")
        ELSE CASE func = "pair"       -> TupleV(<< x, IntV(x.i + 1) >>)
               [] func = "pair_short" -> TupleV(<< x >>)
               [] func = "pair_long"  -> TupleV(<< x, IntV(x.i + 1), IntV(x.i + 2) >>)
               [] OTHER               -> Raised("TypeError")

\* primitives.py: the declared signature of each function used here
Signature(func) ==
    CASE func = "int_add"    -> [inp |-> << <<"x", "int">>, <<"y", "int">> >>, ret |-> "int"]
      [] func = "int_sub"    -> [inp |-> << <<"x", "int">>, <<"y", "int">> >>, ret |-> "int"]
      [] func = "str_repeat" -> [inp |-> << <<"s", "str">>, <<"n", "int">> >>, ret |-> "str"]
      [] func = "str_length" -> [inp |-> << <<"s", "str">> >>, ret |-> "int"]
      [] func = "to_float"   -> [inp |-> << <<"x", "int">> >>, ret |-> "float"]
      [] func = "trunc"      -> [inp |-> << <<"x", "float">> >>, ret |-> "int"]
      [] OTHER               -> ClientSignature(func)

\* primitives.py: the body of each function, on keyword arguments kw (a dict)
ApplyFunc(func, kw) ==
    IF \E p \in Range(Signature(func).inp) : ~DictHas(kw, p[1])
    THEN Raised("TypeError")
    ELSE CASE func = "int_add"    -> PyAdd(DictGet(kw, "x"), DictGet(kw, "y"))
           [] func = "int_sub"    -> PySub(DictGet(kw, "x"), DictGet(kw, "y"))
           [] func = "str_repeat" -> PyMul(DictGet(kw, "s"), DictGet(kw, "n"))
           [] func = "str_length" -> PyLen(DictGet(kw, "s"))
           [] func = "to_float"   -> PyFloat(DictGet(kw, "x"))
           [] func = "trunc"      -> PyInt(DictGet(kw, "x"))
           [] OTHER               -> ClientFunc(func, kw)

\* utils.returns_single: the annotation is not a tuple with type arguments
returns_single(sig) == ~(sig.ret = "tuple" /\ Len(sig.args) > 0)

\* utils.get_types: (inp_type_dict, out_type, single); a single return type
\* is wrapped into a one-element tuple, a tuple annotation gives its arguments
get_types(func) ==
    [inp_type |-> Signature(func).inp,
     out_type |-> IF returns_single(Signature(func)) THEN << Signature(func).ret >>
                  ELSE Signature(func).args,
     single   |-> returns_single(Signature(func))]

\* ------------------------------------------------------ vertex classes
\* out_is_tuple records whether the out_type attribute is a tuple of types
\* (FuncVertex, OutVertex) or a bare type object (ConstVertex, SinkVertex).
FuncVertex(name, func) ==
    [cls |-> "FuncVertex", name |-> name, func |-> func,
     inp_type |-> get_types(func).inp_type,
     out_type |-> get_types(func).out_type, out_is_tuple |-> TRUE,
     single |-> get_types(func).single, value |-> NoValue]

ConstVertex(value) ==
    [cls |-> "ConstVertex",
     name |-> IF value.t = "int" THEN ToString(value.i) ELSE value.s,
     func |-> "", inp_type |-> << >>,
     out_type |-> << value.t >>, out_is_tuple |-> FALSE,
     single |-> TRUE, value |-> value]

SinkVertex(dtype) ==
    [cls |-> "SinkVertex", name |-> SINK_KWD, func |-> "",
     inp_type |-> << <<SINK_KWD, dtype>> >>,
     out_type |-> << "NoneType" >>, out_is_tuple |-> FALSE,
     single |-> TRUE, value |-> NoValue]

OutVertex(dtype) ==
    [cls |-> "OutVertex", name |-> "~ret", func |-> "",
     inp_type |-> << <<OUT_KWD, dtype>> >>,
     out_type |-> << dtype >>, out_is_tuple |-> TRUE,
     single |-> TRUE, value |-> NoValue]

\* __len__ of each class
VLen(o) ==
    CASE o.cls = "FuncVertex"  -> Len(o.out_type)
      [] o.cls = "ConstVertex" -> 1
      [] o.cls = "SinkVertex"  -> 0
      [] o.cls = "OutVertex"   -> 1

\* __call__ of each class on keyword arguments kw (a dict):
\* [raised, err, result]; result is the returned tuple, or NoValue
Returned(result) == [raised |-> FALSE, err |-> "", result |-> result]
Threw(e) == [raised |-> TRUE, err |-> e, result |-> << >>]
VCallFunc(o, kw) ==
    LET result == ApplyFunc(o.func, kw)
    IN  IF result.t = "raise" THEN Threw(result.s)
        ELSE IF o.single THEN Returned(<< result >>) ELSE Returned(result.items)
VCall(o, kw) ==
    CASE o.cls = "FuncVertex"  -> VCallFunc(o, kw)
      [] o.cls = "ConstVertex" ->
            IF Len(kw) > 0 THEN Threw("TypeError") ELSE Returned(<< o.value >>)
      [] o.cls = "SinkVertex"  -> Returned(<< >>)
      [] o.cls = "OutVertex"   ->
            IF DictHas(kw, OUT_KWD) THEN Returned(<< DictGet(kw, OUT_KWD) >>)
            ELSE Threw("KeyError")

\* ------------------------------------------------------------- state
VARIABLES
    objs,           \* the vertex objects constructed so far, by identity 1..Len(objs)
    vertices,       \* FuncGraph.vertices: the set, as the sequence its iteration yields
    adjacency,      \* FuncGraph.adjacency: vertex -> [slot -> None or [(dst, kwd)]]
    argdeps,        \* FuncGraph.argdeps: vertex -> {kwd: None or (src, idx)}
    input_order,    \* FuncGraph.input_order: None or << tuple of types >>
    output_order,   \* FuncGraph.output_order: None or << tuple of types >>
    ret,            \* outcome of the last query made of the graph
    request,        \* RandomComposer.sample: its arguments
    frontier,       \* _compose_func: Counter of the types still requested
    depth_queues,   \* _compose_func: type -> heap of (depth, vertex, kwd)
    depth,          \* _compose_func: depth of the deepest vertex
    outputs_hit,    \* _compose_func: graph outputs produced so far
    frame,          \* _compose_func: the locals of the iteration under way
    pc,             \* where the program stands: "client" while a client builds
                    \* a graph by hand, else the composer's position
    module,         \* RandomComposer.funcs: the names get_funcs(module) lists
    calls           \* the calls of the graph under way: caller -> its locals

graph == << vertices, adjacency, argdeps, input_order, output_order >>
composer == << request, frontier, depth_queues, depth, outputs_hit, frame, pc, module >>
vars == << objs, vertices, adjacency, argdeps, input_order, output_order, ret,
           request, frontier, depth_queues, depth, outputs_hit, frame, pc,
           module, calls >>

NoRet == [op |-> "none"]

\* ----------------------------------------------- FuncGraph: validation
\* st = [visited, recursing, topo_order, raised]; recursing is the closure
\* variable of dfs, raised the propagation of its ValueError
\* mutant: the back-edge test made after the visited test, where it never fires
BackEdge_late(dst, st) == dst \in st.recursing /\ dst \notin st.visited
BackEdge(dst, st) == dst \in st.recursing
\* mutant: the zero-arity filter dropped
NonSink_all(vertex) == TRUE
NonSink(vertex) == Len(adjacency[vertex]) > 0

RECURSIVE dfs(_, _), dfs_items(_, _, _)
dfs_items(vertex, i, st) ==
    IF st.raised \/ i > Len(argdeps[vertex]) THEN st
    ELSE LET into == argdeps[vertex][i][2]
         IN  IF into = None THEN dfs_items(vertex, i + 1, st)
             ELSE IF BackEdge(into[1], st) THEN [st EXCEPT !.raised = TRUE]
             ELSE IF into[1] \notin st.visited
                  THEN dfs_items(vertex, i + 1, dfs(into[1], st))
                  ELSE dfs_items(vertex, i + 1, st)
dfs(vertex, st) ==
    LET entered == [st EXCEPT !.visited = @ \cup {vertex},
                              !.recursing = @ \cup {vertex}]
        after == dfs_items(vertex, 1, entered)
    IN  IF after.raised THEN after
        ELSE [after EXCEPT
                !.topo_order = IF NonSink(vertex) THEN Append(@, vertex) ELSE @,
                !.recursing = @ \ {vertex}]

\* mutant: the traversal started from the first vertex only
topo_loop_first(i, st) ==
    IF Len(vertices) = 0 THEN st ELSE dfs(vertices[1], st)
RECURSIVE topo_loop(_, _)
topo_loop(i, st) ==
    IF st.raised \/ i > Len(vertices) THEN st
    ELSE topo_loop(i + 1, IF vertices[i] \notin st.visited
                          THEN dfs(vertices[i], st) ELSE st)

_get_topo_order ==
    LET st == topo_loop(1, [visited |-> {}, recursing |-> {},
                            topo_order |-> << >>, raised |-> FALSE])
    IN  IF st.raised THEN Threw("Cyclic graph") ELSE Returned(st.topo_order)

\* ------------------------------------------ FuncGraph: output discovery
RECURSIVE Flatten(_)
Flatten(ss) == IF Len(ss) = 0 THEN << >> ELSE Head(ss) \o Flatten(Tail(ss))

_get_out_indices(out) ==
    SelectSeq([e \in 1..Len(adjacency[out]) |-> e - 1],
              LAMBDA e : adjacency[out][e + 1] = None)

HasOutput(vertex) ==
    /\ objs[vertex].cls # "SinkVertex"
    /\ \E e \in 1..Len(adjacency[vertex]) : adjacency[vertex][e] = None

\* mutant: the emptiness check dropped
NoOutput_unchecked(outs) == FALSE
NoOutput(outs) == Len(outs) = 0

\* the greedy pass of lines 348-357: for each requested type, the first
\* discovered position of that type not used yet
RECURSIVE match_outputs(_, _, _, _)
match_outputs(type_ordering, out_type, i, used) ==
    IF i > Len(type_ordering) THEN << >>
    ELSE LET free == {e \in 1..Len(out_type) :
                         out_type[e] = type_ordering[i] /\ e \notin used}
         IN  IF free = {} THEN match_outputs(type_ordering, out_type, i + 1, used)
             ELSE LET e == CHOOSE e \in free : \A f \in free : e <= f
                  IN  << e >> \o match_outputs(type_ordering, out_type, i + 1,
                                               used \cup {e})

_get_outputs(type_ordering) ==
    LET outs == SelectSeq(vertices, HasOutput)
        out_map == Flatten([n \in 1..Len(outs) |->
                       LET o_i == _get_out_indices(outs[n])
                       IN  [j \in 1..Len(o_i) |-> << outs[n], o_i[j] >>]])
        out_type == [n \in 1..Len(out_map) |->
                        objs[out_map[n][1]].out_type[out_map[n][2] + 1]]
        ordering == IF type_ordering = None THEN output_order ELSE type_ordering
    IN  IF NoOutput(outs) THEN Threw("Graph does not have an output vertex.")
        ELSE IF \E n \in 1..Len(outs) : ~objs[outs[n]].out_is_tuple
        THEN Threw("TypeError")
        ELSE IF ordering # None /\ CounterEq(out_type, ordering[1])
        THEN LET pick == match_outputs(ordering[1], out_type, 1, {})
             IN  Returned([out_type |-> [n \in 1..Len(pick) |-> out_type[pick[n]]],
                           out_map  |-> [n \in 1..Len(pick) |-> out_map[pick[n]]]])
        ELSE Returned([out_type |-> out_type, out_map |-> out_map])

get_out_type ==
    LET r == _get_outputs(None)
    IN  IF r.raised THEN r ELSE Returned(r.result.out_type)

\* ---------------------------------------- FuncGraph: argument discovery
\* every (vertex, kwd) of the graph in the order lines 406-407 meet them
AllKeywords ==
    Flatten([n \in 1..Len(vertices) |->
                [j \in 1..Len(objs[vertices[n]].inp_type) |->
                    << vertices[n], objs[vertices[n]].inp_type[j][1] >>]])

\* mutant: the occurrence counter left out of the name
arg_name_bare(kwd, counter) == kwd
arg_name(kwd, counter) == kwd \o ToString(counter)

\* mutant: bound keywords taken for arguments as well
Unbound_always(vertex, kwd) == TRUE
\* line 408
Unbound(vertex, kwd) == DictGet(argdeps[vertex], kwd) = None

\* lines 403-415; acc = [counters, inp_type, arg_map]
RECURSIVE discover(_, _, _)
discover(pairs, n, acc) ==
    IF n > Len(pairs) THEN acc
    ELSE LET vertex == pairs[n][1]
             kwd == pairs[n][2]
         IN  IF ~Unbound(vertex, kwd) THEN discover(pairs, n + 1, acc)
             ELSE LET c == IF DictHas(acc.counters, kwd)
                           THEN DictGet(acc.counters, kwd) + 1 ELSE 0
                      name == arg_name(kwd, c)
                  IN  discover(pairs, n + 1,
                        [counters |-> DictSet(acc.counters, kwd, c),
                         inp_type |-> DictSet(acc.inp_type, name,
                                        DictGet(objs[vertex].inp_type, kwd)),
                         arg_map  |-> DictSet(acc.arg_map, << vertex, kwd >>, name)])

\* the greedy pass of lines 424-431 over the items of inp_type
RECURSIVE match_arguments(_, _, _, _)
match_arguments(type_ordering, inp_type, i, used) ==
    IF i > Len(type_ordering) THEN << >>
    ELSE LET free == {e \in 1..Len(inp_type) :
                         inp_type[e][2] = type_ordering[i] /\ inp_type[e][1] \notin used}
         IN  IF free = {} THEN match_arguments(type_ordering, inp_type, i + 1, used)
             ELSE LET e == CHOOSE e \in free : \A f \in free : e <= f
                  IN  << inp_type[e] >> \o
                      match_arguments(type_ordering, inp_type, i + 1,
                                      used \cup {inp_type[e][1]})

_get_arguments(type_ordering) ==
    LET found == discover(AllKeywords, 1,
                          [counters |-> << >>, inp_type |-> << >>, arg_map |-> << >>])
        ordering == IF type_ordering = None THEN input_order ELSE type_ordering
    IN  [inp_type |->
            IF ordering # None /\ CounterEq(DictValues(found.inp_type), ordering[1])
            THEN match_arguments(ordering[1], found.inp_type, 1, {})
            ELSE found.inp_type,
         arg_map |-> found.arg_map]

get_inp_type == Returned(_get_arguments(None).inp_type)

\* --------------------------------------------------- FuncGraph: call
\* mutant: positional values dropped
bind_positional_none(inp_type, args, i, kwargs) == kwargs
\* lines 509-510: positional values overwrite kwargs under the leading names
RECURSIVE bind_positional(_, _, _, _)
bind_positional(inp_type, args, i, kwargs) ==
    IF i > Len(inp_type) \/ i > Len(args) THEN kwargs
    ELSE bind_positional(inp_type, args, i + 1,
                         DictSet(kwargs, inp_type[i][1], args[i]))

\* mutant: the value read is the first one recorded, whatever the slot
ReadSlot_first(intermediates, dep) == intermediates[1][2]
\* line 518: intermediates[self.argdeps[vertex][kwd]]
ReadSlot(intermediates, dep) == DictGet(intermediates, dep)

External(name) == [ext |-> TRUE, name |-> name, slot |-> None]
Internal(slot) == [ext |-> FALSE, name |-> "", slot |-> slot]

\* lines 513-518: the keyword arguments of one vertex; acc = [kw, src, raised]
\* where src notes, per keyword, what the value was read from
RECURSIVE resolve(_, _, _, _, _, _)
resolve(vertex, j, arg_map, kwargs, intermediates, acc) ==
    IF acc.raised \/ j > Len(objs[vertex].inp_type) THEN acc
    ELSE LET kwd == objs[vertex].inp_type[j][1]
             dep == DictGet(argdeps[vertex], kwd)
         IN  IF DictHas(arg_map, << vertex, kwd >>)
             THEN LET name == DictGet(arg_map, << vertex, kwd >>)
                  IN  IF ~DictHas(kwargs, name) THEN [acc EXCEPT !.raised = TRUE]
                      ELSE resolve(vertex, j + 1, arg_map, kwargs, intermediates,
                             [acc EXCEPT !.kw = DictSet(@, kwd, DictGet(kwargs, name)),
                                         !.src = DictSet(@, kwd, External(name))])
             ELSE IF dep # None
             THEN IF ~DictHas(intermediates, dep) THEN [acc EXCEPT !.raised = TRUE]
                  ELSE resolve(vertex, j + 1, arg_map, kwargs, intermediates,
                         [acc EXCEPT !.kw = DictSet(@, kwd, ReadSlot(intermediates, dep)),
                                     !.src = DictSet(@, kwd, Internal(dep))])
             ELSE resolve(vertex, j + 1, arg_map, kwargs, intermediates, acc)

\* lines 521-522
RECURSIVE record_outputs(_, _, _, _)
record_outputs(vertex, idx, result, intermediates) ==
    IF idx >= VLen(objs[vertex]) THEN intermediates
    ELSE record_outputs(vertex, idx + 1, result,
                        DictSet(intermediates, << vertex, idx >>, result[idx + 1]))

\* lines 512-522; st = [intermediates, trace, raised, err], trace the
\* invocations made so far, each [vertex, kwargs, src, result]
RECURSIVE call_loop(_, _, _, _, _)
call_loop(order, n, arg_map, kwargs, st) ==
    IF st.raised \/ n > Len(order) THEN st
    ELSE LET vertex == order[n]
             r == resolve(vertex, 1, arg_map, kwargs, st.intermediates,
                          [kw |-> << >>, src |-> << >>, raised |-> FALSE])
             result == VCall(objs[vertex], r.kw)
             invoked == Append(st.trace,
                               [vertex |-> vertex, kwargs |-> r.kw, src |-> r.src,
                                result |-> result.result])
         IN  IF r.raised THEN [st EXCEPT !.raised = TRUE, !.err = "KeyError"]
             ELSE IF result.raised
             THEN [st EXCEPT !.raised = TRUE, !.err = result.err, !.trace = invoked]
             ELSE IF Len(result.result) < VLen(objs[vertex])
             THEN [st EXCEPT !.raised = TRUE, !.err = "IndexError", !.trace = invoked]
             ELSE call_loop(order, n + 1, arg_map, kwargs,
                    [st EXCEPT !.trace = invoked,
                               !.intermediates =
                                   record_outputs(vertex, 0, result.result, @)])

CallThrew(e, trace) == [raised |-> TRUE, err |-> e, result |-> << >>, trace |-> trace]

__call__(args, kwargs) ==
    LET a == _get_arguments(None)
        o == _get_outputs(None)
        t == _get_topo_order
        st == call_loop(t.result, 1, a.arg_map,
                        bind_positional(a.inp_type, args, 1, kwargs),
                        [intermediates |-> << >>, trace |-> << >>,
                         raised |-> FALSE, err |-> ""])
        out_map == o.result.out_map
    IN  IF o.raised THEN CallThrew(o.err, << >>)
        ELSE IF t.raised THEN CallThrew(t.err, << >>)
        ELSE IF st.raised THEN CallThrew(st.err, st.trace)
        ELSE IF \E n \in 1..Len(out_map) : ~DictHas(st.intermediates, out_map[n])
        THEN CallThrew("KeyError", st.trace)
        ELSE [raised |-> FALSE, err |-> "",
              result |-> [n \in 1..Len(out_map) |-> DictGet(st.intermediates, out_map[n])],
              trace |-> st.trace]

\* ------------------------------------------ FuncGraph: straight_line
\* The program text, kept as its tokens: input is the INPUT header (name and
\* type per argument), each line is [names, vertex_name, computation] with
\* computation the <<kwd, type, expression>> triples, returns the RETURN line.
\* A line also notes the vertex it was rendered from.
\* mutant: one variable name for every result
var_name_same(counter) == "!v"
var_name(counter) == "!v" \o ToString(counter)
arg_ref(name) == "$" \o name

\* lines 482-487
RECURSIVE render_kwargs(_, _, _, _)
render_kwargs(vertex, j, arg_map, intermediates) ==
    IF j > Len(objs[vertex].inp_type) THEN << >>
    ELSE LET kwd == objs[vertex].inp_type[j][1]
             typ == objs[vertex].inp_type[j][2]
             rest == render_kwargs(vertex, j + 1, arg_map, intermediates)
         IN  IF DictHas(arg_map, << vertex, kwd >>)
             THEN << << kwd, typ, arg_ref(DictGet(arg_map, << vertex, kwd >>)) >> >> \o rest
             ELSE IF DictHas(intermediates, DictGet(argdeps[vertex], kwd))
             THEN << << kwd, typ,
                        DictGet(intermediates, DictGet(argdeps[vertex], kwd)) >> >> \o rest
             ELSE rest

\* lines 490-495
RECURSIVE name_outputs(_, _, _, _)
name_outputs(vertex, idx, counter, intermediates) ==
    IF idx >= VLen(objs[vertex]) THEN intermediates
    ELSE name_outputs(vertex, idx + 1, counter + 1,
                      DictSet(intermediates, << vertex, idx >>, var_name(counter)))

\* lines 481-496; st = [intermediates, counter, lines]
RECURSIVE render_loop(_, _, _, _)
render_loop(order, n, arg_map, st) ==
    IF n > Len(order) THEN st
    ELSE LET vertex == order[n]
             named == name_outputs(vertex, 0, st.counter, st.intermediates)
         IN  render_loop(order, n + 1, arg_map,
                [intermediates |-> named,
                 counter |-> st.counter + VLen(objs[vertex]),
                 lines |-> Append(st.lines,
                    [names |-> [i \in 1..VLen(objs[vertex]) |->
                                   DictGet(named, << vertex, i - 1 >>)],
                     vertex_name |-> objs[vertex].name,
                     computation |-> render_kwargs(vertex, 1, arg_map, st.intermediates),
                     vertex |-> vertex])])

straight_line ==
    LET a == _get_arguments(None)
        o == _get_outputs(None)
        t == _get_topo_order
        st == render_loop(t.result, 1, a.arg_map,
                          [intermediates |-> << >>, counter |-> 0, lines |-> << >>])
        out_map == o.result.out_map
    IN  IF o.raised THEN Threw(o.err)
        ELSE IF t.raised THEN Threw(t.err)
        ELSE IF \E n \in 1..Len(out_map) : ~DictHas(st.intermediates, out_map[n])
        THEN Threw("KeyError")
        ELSE Returned(
               [input |-> [i \in 1..Len(a.inp_type) |->
                              << arg_ref(a.inp_type[i][1]), a.inp_type[i][2] >>],
                lines |-> st.lines,
                returns |-> [n \in 1..Len(out_map) |->
                                DictGet(st.intermediates, out_map[n])]])

\* ------------------------------------------------- the graph's clients
\* the vertex objects a client holds: two function vertices that share their
\* keywords, or two function vertices, a sink and a constant
Universes ==
    { << FuncVertex("int_add", "int_add"),
         FuncVertex("int_sub", "int_sub") >>,
      << FuncVertex("int_add", "int_add"),
         FuncVertex("repeat", "str_repeat"),
         SinkVertex("int"),
         ConstVertex(IntV(2)) >> }

\* test.py 22-23: the orderings a client assigns
InputOrders == { << "int", "str", "int", "int" >> }
OutputOrders == { << "int", "str" >> }

\* test.py 25 and the end-to-end scenario: the value a client passes for the
\* argument that stands for occurrence j of keyword kwd; no two arguments of
\* a call get the same value
ArgValue(kwd, j) ==
    CASE kwd = "x" -> IntV(2 + 10 * j)
      [] kwd = "y" -> IntV(3 + 10 * j)
      [] kwd = "s" -> StrV(IF j = 0 THEN "a" ELSE "b")
      [] kwd = "n" -> IntV(4 + 10 * j)
      [] OTHER     -> IntV(1 + 10 * j)

RECURSIVE SumLen(_)
SumLen(ss) == IF Len(ss) = 0 THEN 0 ELSE Len(Head(ss)) + SumLen(Tail(ss))
NumEdges == SumLen(Flatten([n \in 1..Len(vertices) |-> adjacency[vertices[n]]]))

\* construction statements executed on the graph so far
Steps ==
    Len(vertices) + NumEdges
    + (IF input_order = None THEN 0 ELSE 1) + (IF output_order = None THEN 0 ELSE 1)

\* the graph is built first and queried afterwards
Building == pc = "client" /\ ret = NoRet /\ Steps < MaxSteps

\* FuncGraph.__init__
GraphInit ==
    /\ vertices = << >>
    /\ adjacency = << >>
    /\ argdeps = << >>
    /\ input_order = None
    /\ output_order = None

\* no composer at work
NoComposer ==
    /\ request = None
    /\ frontier = None
    /\ depth_queues = None
    /\ depth = 0
    /\ outputs_hit = 0
    /\ frame = None

\* no call of the graph under way
NoCalls == << >>

Init ==
    /\ objs \in Universes
    /\ GraphInit
    /\ ret = NoRet
    /\ NoComposer
    /\ module = None
    /\ calls = NoCalls
    /\ pc = "client"

\* set.add on a set that lacks new: new takes any place of the iteration
InsertAt(seq, i, x) == SubSeq(seq, 1, i - 1) \o << x >> \o SubSeq(seq, i, Len(seq))
AddTo(f, new, val) == [x \in DOMAIN f \cup {new} |-> IF x = new THEN val ELSE f[x]]

\* FuncGraph.add on the graph g = [vertices, adjacency, argdeps], for a
\* vertex new (the object o): a vertex that g does not hold yet takes place
\* i of the iteration, a vertex that g holds keeps its place (set.add); the
\* two entries of new are assigned in either case
FuncGraph_add(g, new, o, i) ==
    [vertices  |-> IF new \in Range(g.vertices) THEN g.vertices
                   ELSE InsertAt(g.vertices, i, new),
     adjacency |-> AddTo(g.adjacency, new, [e \in 1..VLen(o) |-> None]),
     argdeps   |-> AddTo(g.argdeps, new,
                         [j \in 1..Len(o.inp_type) |-> << o.inp_type[j][1], None >>])]

\* list.__getitem__: the place, counted from 0, that index idx stands for in
\* a list of length len; a negative index counts from the end
ListIndex(len, idx) == IF idx < 0 THEN idx + len ELSE idx

\* mutant: the slot lists only the consumer fed last
FuncGraph_feed_adjacency_last(g, src, idx, dst, kwd) ==
    [g EXCEPT !.adjacency[src][ListIndex(Len(g.adjacency[src]), idx) + 1] =
                  << << dst, kwd >> >>]
\* lines 225-228 of FuncGraph.feed on the graph g
FuncGraph_feed_adjacency(g, src, idx, dst, kwd) ==
    [g EXCEPT !.adjacency[src][ListIndex(Len(g.adjacency[src]), idx) + 1] =
                  Append(@, << dst, kwd >>)]

\* mutant: the keyword bound is the source's own
FuncGraph_feed_self(g, src, idx, dst, kwd) ==
    [FuncGraph_feed_adjacency(g, src, idx, src, kwd)
        EXCEPT !.argdeps[src] = DictSet(@, kwd, << src, idx >>)]
\* mutant: a keyword that has a producer keeps it
FuncGraph_feed_keep(g, src, idx, dst, kwd) ==
    [FuncGraph_feed_adjacency(g, src, idx, dst, kwd)
        EXCEPT !.argdeps[dst] = IF DictGet(@, kwd) = None
                                THEN DictSet(@, kwd, << src, idx >>) ELSE @]
\* FuncGraph.feed on the graph g: lines 225-228, then line 229
FuncGraph_feed(g, src, idx, dst, kwd) ==
    [FuncGraph_feed_adjacency(g, src, idx, dst, kwd)
        EXCEPT !.argdeps[dst] = DictSet(@, kwd, << src, idx >>)]

TheGraph == [vertices |-> vertices, adjacency |-> adjacency, argdeps |-> argdeps]
\* the graph becomes g
Becomes(g) ==
    /\ vertices' = g.vertices
    /\ adjacency' = g.adjacency
    /\ argdeps' = g.argdeps

\* FuncGraph.add(new), for a vertex the graph does not hold yet
add(new) ==
    /\ Building
    /\ new \in 1..Len(objs)
    /\ new \notin Range(vertices)
    /\ \E i \in 1..(Len(vertices) + 1) :
          Becomes(FuncGraph_add(TheGraph, new, objs[new], i))
    /\ UNCHANGED << objs, input_order, output_order, ret, composer, calls >>

\* FuncGraph.feed(src, idx, dst, kwd), idx counted from 0, under its
\* requirements: both vertices added, idx a slot of src, kwd an input of dst
feed(src, idx, dst, kwd) ==
    /\ Building
    /\ src \in DOMAIN adjacency
    /\ idx \in 0..(Len(adjacency[src]) - 1)
    /\ dst \in DOMAIN argdeps
    /\ DictHas(objs[dst].inp_type, kwd)
    /\ Becomes(FuncGraph_feed(TheGraph, src, idx, dst, kwd))
    /\ UNCHANGED << objs, input_order, output_order, ret, composer, calls >>

\* g.input_order = order; g.output_order = order
set_input_order(order) ==
    /\ Building
    /\ input_order = None
    /\ input_order' = << order >>
    /\ UNCHANGED << objs, vertices, adjacency, argdeps, output_order, ret, composer, calls >>

set_output_order(order) ==
    /\ Building
    /\ output_order = None
    /\ output_order' = << order >>
    /\ UNCHANGED << objs, vertices, adjacency, argdeps, input_order, ret, composer, calls >>

\* ---- queries: each leaves the graph as it is and notes its outcome in ret
\* (out), with what the private helper it rests on returned (via); a graph
\* is queried by the client that built it, or once sample has returned it
Queryable == ret = NoRet /\ pc \in {"client", "returned"}

Validate ==
    /\ Queryable
    /\ ret' = [op |-> "_get_topo_order", out |-> _get_topo_order]
    /\ UNCHANGED << objs, graph, composer, calls >>

\* get_out_type, had it kept the order it answered in as the graph's own
GetOutType_tagging ==
    /\ Queryable
    /\ ret' = [op |-> "get_out_type", out |-> get_out_type, via |-> _get_outputs(None)]
    /\ output_order' = IF get_out_type.raised THEN output_order
                       ELSE << get_out_type.result >>
    /\ UNCHANGED << objs, vertices, adjacency, argdeps, input_order, composer, calls >>

GetOutType ==
    /\ Queryable
    /\ ret' = [op |-> "get_out_type", out |-> get_out_type, via |-> _get_outputs(None)]
    /\ UNCHANGED << objs, graph, composer, calls >>

GetInpType ==
    /\ Queryable
    /\ ret' = [op |-> "get_inp_type", out |-> get_inp_type, via |-> _get_arguments(None)]
    /\ UNCHANGED << objs, graph, composer, calls >>

StraightLine ==
    /\ Queryable
    /\ ret' = [op |-> "straight_line", out |-> straight_line]
    /\ UNCHANGED << objs, graph, composer, calls >>

\* a call that passes the first npos arguments by position and the others
\* by the names get_inp_type() lists; values[i] is the i-th argument's value
NamedCall(inp_type, values, npos) ==
    [args |-> [i \in 1..npos |-> values[i]],
     kwargs |-> [i \in 1..(Len(inp_type) - npos) |->
                    << inp_type[npos + i][1], values[npos + i] >>]]

\* a call that passes every unbound keyword under the keyword's own name,
\* as the end-to-end scenario writes it: (s="a", x=2, y=3)
RECURSIVE BareKwargs(_, _)
BareKwargs(arg_map, n) ==
    IF n = 0 THEN << >>
    ELSE DictSet(BareKwargs(arg_map, n - 1),
                 arg_map[n][1][2], ArgValue(arg_map[n][1][2], 0))
BareCall(arg_map) == [args |-> << >>, kwargs |-> BareKwargs(arg_map, Len(arg_map))]

Call(args, kwargs) ==
    /\ Queryable
    /\ ret' = [op |-> "call", args |-> args, kwargs |-> kwargs,
               out |-> __call__(args, kwargs)]
    /\ UNCHANGED << objs, graph, composer, calls >>

\* the values a client holds for the external arguments of the graph as it
\* is, in the order of get_inp_type()
CallValues ==
    LET a == _get_arguments(None)
        entry(name) == CHOOSE n \in 1..Len(a.arg_map) : a.arg_map[n][2] = name
        keyword(n) == a.arg_map[n][1][2]
        occurrence(n) == Cardinality({m \in 1..(n - 1) : keyword(m) = keyword(n)})
    IN  [i \in 1..Len(a.inp_type) |->
            LET n == entry(a.inp_type[i][1])
            IN  ArgValue(keyword(n), occurrence(n))]

\* what a client may pass to a call of the graph as it is
CallInputs ==
    LET a == _get_arguments(None)
    IN  {NamedCall(a.inp_type, CallValues, npos) : npos \in 0..Len(a.inp_type)}
        \cup {BareCall(a.arg_map)}

Next ==
    \/ \E new \in (1..Len(objs)) \ Range(vertices) : add(new)
    \/ \E src \in DOMAIN adjacency, dst \in DOMAIN argdeps :
          \E idx \in 0..(Len(adjacency[src]) - 1),
             kwd \in Range(DictKeys(objs[dst].inp_type)) :
                feed(src, idx, dst, kwd)
    \/ \E order \in InputOrders : set_input_order(order)
    \/ \E order \in OutputOrders : set_output_order(order)
    \/ Validate
    \/ GetOutType
    \/ GetInpType
    \/ StraightLine
    \/ \E c \in CallInputs : Call(c.args, c.kwargs)

Spec == Init /\ [][Next]_vars

\* ------------------------------- graphs over a client's own functions
\* a function of two declared outputs, which returns two, one or three
\* values, and a function that takes its outputs
ArityUniverses ==
    { << FuncVertex(f, f), FuncVertex("int_add", "int_add") >> :
         f \in {"pair", "pair_short", "pair_long"} }

InitArity ==
    /\ objs \in ArityUniverses
    /\ GraphInit
    /\ ret = NoRet
    /\ NoComposer
    /\ module = None
    /\ calls = NoCalls
    /\ pc = "client"

SpecArity == InitArity /\ [][Next]_vars

\* ------------------------------- calls with a miscounted argument list
\* a value a client passes beyond the external arguments
SurplusValue == IntV(9)

\* a call that leaves out the k-th external argument: the ones before it go
\* by position, the ones after it by name
OmittingCall(inp_type, values, k) ==
    [args |-> [i \in 1..(k - 1) |-> values[i]],
     kwargs |-> [i \in 1..(Len(inp_type) - k) |->
                    << inp_type[k + i][1], values[k + i] >>]]

\* what a client that miscounts passes: one positional value too many, or
\* every external argument but one
MiscountedInputs ==
    LET a == _get_arguments(None)
    IN  {[args |-> CallValues \o << SurplusValue >>, kwargs |-> << >>]}
        \cup {OmittingCall(a.inp_type, CallValues, k) : k \in 1..Len(a.inp_type)}

NextMiscount ==
    \/ \E new \in (1..Len(objs)) \ Range(vertices) : add(new)
    \/ \E src \in DOMAIN adjacency, dst \in DOMAIN argdeps :
          \E idx \in 0..(Len(adjacency[src]) - 1),
             kwd \in Range(DictKeys(objs[dst].inp_type)) :
                feed(src, idx, dst, kwd)
    \/ \E order \in InputOrders : set_input_order(order)
    \/ \E order \in OutputOrders : set_output_order(order)
    \/ \E c \in CallInputs \cup MiscountedInputs : Call(c.args, c.kwargs)

SpecMiscount == Init /\ [][NextMiscount]_vars

\* -------------------- a client outside the requirements of add and feed
\* the vertex objects the client holds
LooseUniverses ==
    { << FuncVertex("int_add", "int_add"),
         FuncVertex("repeat", "str_repeat") >> }

\* a keyword that no vertex declares
UNDECLARED_KWD == "z"

\* dependency entries that name a producer
NumBound ==
    SumLen([n \in 1..Len(vertices) |->
               SelectSeq(argdeps[vertices[n]], LAMBDA e : e[2] # None)])

\* the client goes on after a statement that raised; ret notes the last
\* statement, its arguments and its outcome
Statement ==
    /\ pc = "client"
    /\ ret.op \in {"none", "add", "feed"}
    /\ Len(vertices) + NumEdges + NumBound < MaxSteps

\* FuncGraph.add(new), of any vertex object, registered (known) or not
add_any(new) ==
    /\ Statement
    /\ new \in 1..Len(objs)
    /\ \E i \in 1..(Len(vertices) + 1) :
          Becomes(FuncGraph_add(TheGraph, new, objs[new], i))
    /\ ret' = [op |-> "add", new |-> new, known |-> new \in Range(vertices),
               out |-> Returned(<< new >>)]
    /\ UNCHANGED << objs, input_order, output_order, composer, calls >>

\* FuncGraph.feed(src, idx, dst, kwd) of any arguments: self.adjacency[src]
\* raises KeyError for a vertex not added, [idx] raises IndexError outside
\* -len..len-1 (line 225); self.argdeps[dst] raises KeyError for a vertex
\* not added, after lines 225-228 have run (line 229)
feed_any(src, idx, dst, kwd) ==
    /\ Statement
    /\ LET note(out) == ret' = [op |-> "feed", src |-> src, idx |-> idx,
                                dst |-> dst, kwd |-> kwd, out |-> out]
       IN  IF src \notin DOMAIN adjacency
           THEN note(Threw("KeyError")) /\ Becomes(TheGraph)
           ELSE IF ListIndex(Len(adjacency[src]), idx) \notin 0..(Len(adjacency[src]) - 1)
           THEN note(Threw("IndexError")) /\ Becomes(TheGraph)
           ELSE IF dst \notin DOMAIN argdeps
           THEN /\ note(Threw("KeyError"))
                /\ Becomes(FuncGraph_feed_adjacency(TheGraph, src, idx, dst, kwd))
           ELSE /\ note(Returned(<< >>))
                /\ Becomes(FuncGraph_feed(TheGraph, src, idx, dst, kwd))
    /\ UNCHANGED << objs, input_order, output_order, composer, calls >>

\* the slots the client writes: one before the first and one past the last
\* of a vertex of one output
LooseSlots == { -1, 0, 1 }

InitLoose ==
    /\ objs \in LooseUniverses
    /\ GraphInit
    /\ ret = NoRet
    /\ NoComposer
    /\ module = None
    /\ calls = NoCalls
    /\ pc = "client"

NextLoose ==
    \/ \E new \in 1..Len(objs) : add_any(new)
    \/ \E src \in 1..Len(objs), dst \in 1..Len(objs) :
          \E idx \in LooseSlots,
             kwd \in Range(DictKeys(objs[dst].inp_type)) \cup {UNDECLARED_KWD} :
                feed_any(src, idx, dst, kwd)

SpecLoose == InitLoose /\ [][NextLoose]_vars

\* =================================================== RandomComposer
\* ----------------------------------------------------------- bounds
\* vertex objects one attempt of the composer creates
MaxObjects == 4

\* --------------------------------------------- collections.Counter
\* a Counter is the function from the types to their counts; a key whose
\* count reaches zero is deleted at once (lines 642-643, 681-685), so a key is
\* in the Counter exactly when its count is positive
DTYPES == {"str", "int", "float"}
Counter(seq) == [t \in DTYPES |-> CountOf(seq, t)]
Min2(a, b) == IF a < b THEN a ELSE b
Max2(a, b) == IF a > b THEN a ELSE b
CounterAnd(x, y) == [t \in DTYPES |-> Min2(x[t], y[t])]
CounterOr(x, y) == [t \in DTYPES |-> Max2(x[t], y[t])]
CounterSub(x, y) == [t \in DTYPES |-> Max2(x[t] - y[t], 0)]
total(x) == x["str"] + x["int"] + x["float"]

\* ------------------------------------------------------------ heapq
\* an entry (depth, vertex, kwd) of a depth queue; none marks (d, None, None)
Entry(d, dst, kwd) == [depth |-> d, none |-> FALSE, dst |-> dst, kwd |-> kwd]
NoneEntry(d) == [depth |-> d, none |-> TRUE, dst |-> 0, kwd |-> ""]

\* str.__lt__ on the keywords in use, which this sequence lists in order
SortedKeywords == << "_", "a", "b", "n", "out", "s", "x", "y" >>
KwdLt(k1, k2) ==
    (CHOOSE i \in 1..Len(SortedKeywords) : SortedKeywords[i] = k1)
        < (CHOOSE i \in 1..Len(SortedKeywords) : SortedKeywords[i] = k2)

\* tuple.__lt__ on two entries: the first position where they differ decides;
\* there None against a vertex raises TypeError, and two vertices compare by
\* Vertex.__lt__ (lines 17-18)
LtRaises(a, b) == a.depth = b.depth /\ a.none # b.none
Lt(a, b) ==
    IF a.depth # b.depth THEN a.depth < b.depth
    ELSE IF a.none THEN FALSE
    ELSE IF a.dst # b.dst THEN VLen(objs[a.dst]) < VLen(objs[b.dst])
    ELSE KwdLt(a.kwd, b.kwd)

\* heapq._siftdown(heap, startpos, pos) with newitem in hand; positions from
\* 0; the outcome is [heap, raised]
RECURSIVE _siftdown(_, _, _, _)
_siftdown(heap, startpos, pos, newitem) ==
    IF pos > startpos
    THEN LET parentpos == (pos - 1) \div 2
             parent == heap[parentpos + 1]
         IN  IF LtRaises(newitem, parent) THEN [heap |-> heap, raised |-> TRUE]
             ELSE IF Lt(newitem, parent)
             THEN _siftdown([heap EXCEPT ![pos + 1] = parent], startpos, parentpos, newitem)
             ELSE [heap |-> [heap EXCEPT ![pos + 1] = newitem], raised |-> FALSE]
    ELSE [heap |-> [heap EXCEPT ![pos + 1] = newitem], raised |-> FALSE]

\* heapq._siftup(heap, pos): the smaller child bubbles up until a leaf is hit,
\* then newitem sifts down from there
RECURSIVE _siftup_loop(_, _, _, _)
_siftup_loop(heap, startpos, pos, newitem) ==
    LET endpos == Len(heap)
        childpos == 2 * pos + 1
        rightpos == childpos + 1
    IN  IF childpos < endpos
        THEN IF rightpos < endpos /\ LtRaises(heap[childpos + 1], heap[rightpos + 1])
             THEN [heap |-> heap, raised |-> TRUE]
             ELSE LET c == IF rightpos < endpos
                              /\ ~Lt(heap[childpos + 1], heap[rightpos + 1])
                           THEN rightpos ELSE childpos
                  IN  _siftup_loop([heap EXCEPT ![pos + 1] = heap[c + 1]],
                                   startpos, c, newitem)
        ELSE _siftdown([heap EXCEPT ![pos + 1] = newitem], startpos, pos, newitem)
_siftup(heap, pos) == _siftup_loop(heap, pos, pos, heap[pos + 1])

\* heapq.heappush(heap, item): [heap, raised]
heappush(heap, item) == _siftdown(Append(heap, item), 0, Len(heap), item)

\* mutant: the entry pushed last is the one popped
heappop_last(heap) ==
    [heap |-> SubSeq(heap, 1, Len(heap) - 1), raised |-> FALSE, item |-> heap[Len(heap)]]
\* heapq.heappop(heap) of a heap that is not empty: [heap, raised, item]
heappop(heap) ==
    LET lastelt == heap[Len(heap)]
        rest == SubSeq(heap, 1, Len(heap) - 1)
        r == _siftup([rest EXCEPT ![1] = lastelt], 0)
    IN  IF Len(rest) = 0 THEN [heap |-> rest, raised |-> FALSE, item |-> lastelt]
        ELSE [heap |-> r.heap, raised |-> r.raised, item |-> heap[1]]

\* ------------------------------------------------- the composer's inputs
\* RandomComposer(module): get_funcs lists the module's functions by name
Module == << "int_add", "str_length", "str_repeat" >>
funcs == module
\* funcs_types[name] = (Counter of the input types, Counter of the output types)
funcs_types(name) ==
    << Counter(DictValues(get_types(name).inp_type)), Counter(get_types(name).out_type) >>

\* keyword defaults of _compose_func
n_lookahead == 2

\* the requests a client makes of sample: input_type, output_type, max_depth
Requests ==
    [input_type : {<< >>, << "int" >>, << "int", "str" >>},
     output_type : {<< >>, << "int" >>, << "str", "int" >>},
     max_depth : {1, 3}]

\* mutant: every generator draws an int
DTYPE_GENERATORS_int(typ) ==
    IF typ \in {"int", "str", "float"} THEN {IntV(0), IntV(5)} ELSE {}
\* generators.DTYPE_GENERATORS: for each type it has a generator for, some of
\* the values the generator may draw (the least and the greatest int, one
\* string, the two ends of the floats); no value for any other type
DTYPE_GENERATORS(typ) ==
    CASE typ = "int"   -> {IntV(0), IntV(5)}
      [] typ = "str"   -> {StrV("a")}
      [] typ = "float" -> {FloatV(-2), FloatV(2)}
      [] OTHER         -> {}

\* --------------------------------------------- _find_resemblance_scores
\* resemblance(x, y) = (x & y).total() / (x | y).total(), as the pair of its
\* numerator and denominator; a zero denominator is ZeroDivisionError
resemblance(x, y) == << total(CounterAnd(x, y)), total(CounterOr(x, y)) >>

\* the score of a function, times the denominators: inp_weighing = 2.0; inp_set
\* is None or << Counter >>
score(name, inp_set, out_set) ==
    LET ri == IF inp_set = None THEN << 0, 1 >>
              ELSE resemblance(inp_set[1], funcs_types(name)[1])
        ro == resemblance(out_set, funcs_types(name)[2])
    IN  2 * ri[1] * ro[2] + ro[1] * ri[2]
DividesByZero(name, inp_set, out_set) ==
    \/ inp_set # None /\ resemblance(inp_set[1], funcs_types(name)[1])[2] = 0
    \/ resemblance(out_set, funcs_types(name)[2])[2] = 0

\* the names with a positive score; softmax gives each a positive weight
_find_resemblance_scores(inp_set, out_set) ==
    IF \E n \in 1..Len(funcs) : DividesByZero(funcs[n], inp_set, out_set)
    THEN Threw("ZeroDivisionError")
    ELSE Returned(SelectSeq(funcs, LAMBDA name : score(name, inp_set, out_set) > 0))

\* ------------------------------------------------------- _compose_func
goal == Counter(request.input_type)

\* mutant: the queues start empty
InitialQueues_empty(output_type, n) == [t \in DTYPES |-> << >>]
\* lines 600-611: the state an attempt starts from
RECURSIVE InitialQueues(_, _)
InitialQueues(output_type, n) ==
    IF n = 0 THEN [t \in DTYPES |-> << >>]
    ELSE LET q == InitialQueues(output_type, n - 1)
         IN  [q EXCEPT ![output_type[n]] = heappush(@, NoneEntry(0)).heap]

NoFrame(output_type) ==
    [vertex |-> 0, idx |-> 0, used |-> FALSE, fn_depth |-> 0,
     typ |-> IF Len(output_type) = 0 THEN "" ELSE output_type[Len(output_type)],
     residues |-> Counter(<< >>)]

Prologue(req) ==
    /\ frontier' = Counter(req.output_type)
    /\ depth_queues' = InitialQueues(req.output_type, Len(req.output_type))
    /\ depth' = 0
    /\ outputs_hit' = 0
    /\ frame' = NoFrame(req.output_type)
    /\ objs' = << >>
    /\ vertices' = << >>
    /\ adjacency' = << >>
    /\ argdeps' = << >>
    /\ input_order' = None
    /\ output_order' = None
    /\ pc' = "while"

\* sample(input_type, output_type, max_depth): the first attempt begins
sample(req) ==
    /\ pc = "idle"
    /\ request' = req
    /\ Prologue(req)
    /\ UNCHANGED << ret, module, calls >>

\* the vertex objects an attempt may create: one more than MaxObjects for a
\* request of the scenario's depth, whose graphs need one vertex more
ScenarioDepth == 4
ObjectsAllowed ==
    IF request.max_depth >= ScenarioDepth THEN MaxObjects + 1 ELSE MaxObjects

\* line 613: the loop's condition
LoopCondition ==
    frontier # goal \/ outputs_hit < Len(request.output_type)

\* the exception leaves sample
Raise(e) ==
    /\ pc' = "raised"
    /\ ret' = [op |-> "sample", out |-> Threw(e)]
    /\ UNCHANGED << objs, graph, request, frontier, depth_queues, depth,
                    outputs_hit, frame, module, calls >>

\* lines 615-634: a function is drawn among those with a positive score and
\* its vertex added to the graph
choose_function ==
    /\ pc = "while"
    /\ LoopCondition
    /\ Len(objs) < ObjectsAllowed
    /\ LET near == depth >= request.max_depth - n_lookahead
           names == _find_resemblance_scores(IF near THEN << goal >> ELSE None, frontier)
       IN  IF names.raised THEN Raise(names.err)
           ELSE IF Len(names.result) = 0 THEN Raise("IndexError")
           ELSE \E n \in 1..Len(names.result) : \E i \in 1..(Len(vertices) + 1) :
                  LET vertex == FuncVertex(names.result[n], names.result[n])
                      new == Len(objs) + 1
                  IN  /\ objs' = Append(objs, vertex)
                      /\ Becomes(FuncGraph_add(TheGraph, new, vertex, i))
                      /\ frame' = [frame EXCEPT !.vertex = new, !.idx = 0,
                                                !.used = FALSE, !.fn_depth = 0]
                      /\ pc' = "outputs"
                      /\ UNCHANGED << input_order, output_order, ret, request,
                                      frontier, depth_queues, depth, outputs_hit,
                                      module, calls >>

\* the type of the output the for loop of line 637 stands at
fn_out_type == objs[frame.vertex].out_type
OutputsLeft == frame.idx < Len(fn_out_type)
typ_here == fn_out_type[frame.idx + 1]

\* the loop of line 637 moves to the next output
NextOutput(f) == [f EXCEPT !.idx = @ + 1, !.used = FALSE]

\* lines 638-655: one round of the while loop; the output is fed to the
\* request popped, a new OutVertex when the request is a graph output, and
\* random.random() decides whether the loop goes on (again)
feed_output ==
    /\ pc = "outputs"
    /\ OutputsLeft
    /\ frontier[typ_here] > 0
    /\ LET typ == typ_here
           popped == heappop(depth_queues[typ])
           item == popped.item
           f == [frame EXCEPT !.typ = typ, !.used = TRUE,
                              !.fn_depth = Max2(@, item.depth + 1)]
       IN  IF popped.raised THEN Raise("TypeError")
           ELSE /\ frontier' = [frontier EXCEPT ![typ] = @ - 1]
                /\ depth_queues' = [depth_queues EXCEPT ![typ] = popped.heap]
                /\ \E again \in BOOLEAN :
                      frame' = IF again /\ frontier'[typ] > 0 THEN f ELSE NextOutput(f)
                /\ IF item.none
                   THEN /\ Len(objs) < ObjectsAllowed
                        /\ outputs_hit' = outputs_hit + 1
                        /\ objs' = Append(objs, OutVertex(typ))
                        /\ \E i \in 1..(Len(vertices) + 1) :
                              Becomes(FuncGraph_feed(
                                  FuncGraph_add(TheGraph, Len(objs) + 1, OutVertex(typ), i),
                                  frame.vertex, frame.idx, Len(objs) + 1, OUT_KWD))
                   ELSE /\ Becomes(FuncGraph_feed(TheGraph, frame.vertex, frame.idx,
                                                  item.dst, item.kwd))
                        /\ UNCHANGED << objs, outputs_hit >>
                /\ UNCHANGED << input_order, output_order, ret, request, depth, pc,
                             module, calls >>

\* mutant: an output no request takes is left as it is
sink_output_skip ==
    /\ pc = "outputs"
    /\ OutputsLeft
    /\ frontier[typ_here] = 0
    /\ ~frame.used
    /\ frame' = NextOutput([frame EXCEPT !.typ = typ_here])
    /\ UNCHANGED << objs, graph, ret, request, frontier, depth_queues, depth,
                    outputs_hit, pc, module, calls >>

\* lines 657-660: an output no request takes is fed to a new SinkVertex
sink_output ==
    /\ pc = "outputs"
    /\ OutputsLeft
    /\ frontier[typ_here] = 0
    /\ ~frame.used
    /\ Len(objs) < ObjectsAllowed
    /\ objs' = Append(objs, SinkVertex(typ_here))
    /\ \E i \in 1..(Len(vertices) + 1) :
          Becomes(FuncGraph_feed(
              FuncGraph_add(TheGraph, Len(objs) + 1, SinkVertex(typ_here), i),
              frame.vertex, frame.idx, Len(objs) + 1, SINK_KWD))
    /\ frame' = NextOutput([frame EXCEPT !.typ = typ_here])
    /\ UNCHANGED << input_order, output_order, ret, request, frontier,
                    depth_queues, depth, outputs_hit, pc, module, calls >>

\* lines 663-667: every input of the function becomes a request;
\* st = [frontier, depth_queues, typ, raised]
RECURSIVE request_inputs(_, _, _)
request_inputs(fn_inp_type, j, st) ==
    IF st.raised \/ j > Len(fn_inp_type) THEN st
    ELSE LET kwd == fn_inp_type[j][1]
             typ == fn_inp_type[j][2]
             pushed == heappush(st.depth_queues[typ],
                                Entry(frame.fn_depth, frame.vertex, kwd))
         IN  request_inputs(fn_inp_type, j + 1,
                [frontier |-> [st.frontier EXCEPT ![typ] = @ + 1],
                 depth_queues |-> [st.depth_queues EXCEPT ![typ] = pushed.heap],
                 typ |-> typ,
                 raised |-> pushed.raised])

\* lines 663-678, after the last output: the inputs are requested, the depth
\* updated, the attempt given up beyond max_depth, and at max_depth the
\* residues taken for the type the variable typ was left at
push_inputs ==
    /\ pc = "outputs"
    /\ ~OutputsLeft
    /\ LET st == request_inputs(objs[frame.vertex].inp_type, 1,
                    [frontier |-> frontier, depth_queues |-> depth_queues,
                     typ |-> frame.typ, raised |-> FALSE])
           d == Max2(depth, frame.fn_depth)
           residues == CounterSub(st.frontier, goal)
       IN  IF st.raised THEN Raise("TypeError")
           ELSE /\ frontier' = st.frontier
                /\ depth_queues' = st.depth_queues
                /\ depth' = d
                /\ frame' = [frame EXCEPT !.typ = st.typ,
                                          !.residues = IF d = request.max_depth
                                                       THEN residues ELSE @]
                /\ pc' = IF d > request.max_depth THEN "aborted"
                         ELSE IF d >= request.max_depth
                                 /\ DTYPE_GENERATORS(st.typ) # {}
                                 /\ residues[st.typ] > 0
                         THEN "closure"
                         ELSE "while"
                /\ UNCHANGED << objs, graph, ret, request, outputs_hit,
                             module, calls >>

\* lines 679-696: one round of the closing loop; a constant is generated and
\* fed to the request popped
close_with_constant ==
    /\ pc = "closure"
    /\ Len(objs) < ObjectsAllowed
    /\ LET typ == frame.typ
           popped == heappop(depth_queues[typ])
           item == popped.item
           new == Len(objs) + 1
       IN  IF popped.raised THEN Raise("TypeError")
           ELSE /\ frame' = [frame EXCEPT !.residues[typ] = @ - 1]
                /\ frontier' = [frontier EXCEPT ![typ] = @ - 1]
                /\ depth_queues' = [depth_queues EXCEPT ![typ] = popped.heap]
                /\ pc' = IF frame'.residues[typ] > 0 THEN "closure" ELSE "while"
                /\ \E value \in DTYPE_GENERATORS(typ) :
                   \E i \in 1..(Len(vertices) + 1) :
                      LET v == ConstVertex(value)
                          g == FuncGraph_add(TheGraph, new, v, i)
                      IN  IF item.none
                          THEN /\ Len(objs) + 1 < ObjectsAllowed
                               /\ outputs_hit' = outputs_hit + 1
                               /\ objs' = objs \o << v, OutVertex(typ) >>
                               /\ \E j \in 1..(Len(g.vertices) + 1) :
                                     Becomes(FuncGraph_feed(
                                         FuncGraph_add(g, new + 1, OutVertex(typ), j),
                                         new, 0, new + 1, OUT_KWD))
                          ELSE /\ objs' = Append(objs, v)
                               /\ Becomes(FuncGraph_feed(g, new, 0, item.dst, item.kwd))
                               /\ UNCHANGED outputs_hit
                /\ UNCHANGED << input_order, output_order, ret, request, depth,
                             module, calls >>

\* lines 698-700: the loop is over; the graph is tagged and returned
compose_return ==
    /\ pc = "while"
    /\ ~LoopCondition
    /\ input_order' = << request.input_type >>
    /\ output_order' = << request.output_type >>
    /\ pc' = "returned"
    /\ UNCHANGED << objs, vertices, adjacency, argdeps, ret, request, frontier,
                    depth_queues, depth, outputs_hit, frame, module, calls >>

\* lines 705-712: _compose_func returned None and sample tries again
retry ==
    /\ pc = "aborted"
    /\ Prologue(request)
    /\ UNCHANGED << ret, request, module, calls >>

\* a composer constructed, before sample is called
InitCompose ==
    /\ objs = << >>
    /\ GraphInit
    /\ ret = NoRet
    /\ NoComposer
    /\ module = Module
    /\ calls = NoCalls
    /\ pc = "idle"

NextCompose ==
    \/ \E req \in Requests : sample(req)
    \/ choose_function
    \/ feed_output
    \/ sink_output
    \/ push_inputs
    \/ close_with_constant
    \/ compose_return
    \/ retry
    \/ Validate
    \/ GetOutType
    \/ GetInpType
    \/ StraightLine
    \/ \E c \in CallInputs : Call(c.args, c.kwargs)

SpecCompose == InitCompose /\ [][NextCompose]_vars

\* ------------------------------------------- the scenario of test.py
\* a library that covers int, str and float, as get_funcs lists it
ScenarioModule == << "str_repeat", "to_float", "trunc" >>

\* test.py 29-33: sample((int, str, float), (int, str), max_depth=4), and
\* the same signature with the least depth
ScenarioRequests ==
    [input_type : {<< "int", "str", "float" >>},
     output_type : {<< "int", "str" >>},
     max_depth : {1, ScenarioDepth}]

InitScenario ==
    /\ objs = << >>
    /\ GraphInit
    /\ ret = NoRet
    /\ NoComposer
    /\ module = ScenarioModule
    /\ calls = NoCalls
    /\ pc = "idle"

NextScenario ==
    \/ \E req \in ScenarioRequests : sample(req)
    \/ choose_function
    \/ feed_output
    \/ sink_output
    \/ push_inputs
    \/ close_with_constant
    \/ compose_return
    \/ retry

SpecScenario == InitScenario /\ [][NextScenario]_vars

\* ============================== calls of one built graph, interleaved
\* ----------------------------------------------------------- bounds
\* callers that call the graph at the same time
MaxCallers == 2

\* the locals of a call: at = "idle" before the call, "loop" between two
\* vertex invocations, "done" once the call has returned or raised
IdleCall ==
    [at |-> "idle", args |-> << >>, kwargs |-> << >>, bound |-> << >>,
     arg_map |-> << >>, out_map |-> << >>, order |-> << >>, n |-> 0,
     intermediates |-> << >>, out |-> Returned(<< >>)]

\* mutant: one table of intermediate values, the first caller's, read by all
Table_shared(c) == calls[1].intermediates
\* line 503: intermediates is a local of the call
Table(c) == calls[c].intermediates

\* lines 503-510: the call reads the arguments, the outputs and the order
\* of the graph and binds the positional values
call_enter(c, args, kwargs) ==
    /\ calls[c].at = "idle"
    /\ LET a == _get_arguments(None)
           o == _get_outputs(None)
           t == _get_topo_order
       IN  calls' = [calls EXCEPT ![c] =
               IF o.raised THEN [@ EXCEPT !.at = "done", !.args = args,
                                          !.kwargs = kwargs, !.out = Threw(o.err)]
               ELSE IF t.raised THEN [@ EXCEPT !.at = "done", !.args = args,
                                               !.kwargs = kwargs, !.out = Threw(t.err)]
               ELSE [@ EXCEPT !.at = "loop", !.args = args, !.kwargs = kwargs,
                              !.bound = bind_positional(a.inp_type, args, 1, kwargs),
                              !.arg_map = a.arg_map, !.out_map = o.result.out_map,
                              !.order = t.result, !.n = 1]]
    /\ UNCHANGED << objs, graph, ret, composer >>

\* lines 512-522: one round of the loop, the invocation of one vertex
call_invoke(c) ==
    /\ calls[c].at = "loop"
    /\ calls[c].n <= Len(calls[c].order)
    /\ LET f == calls[c]
           st == call_loop(<< f.order[f.n] >>, 1, f.arg_map, f.bound,
                           [intermediates |-> Table(c), trace |-> << >>,
                            raised |-> FALSE, err |-> ""])
       IN  calls' = [calls EXCEPT ![c] =
               IF st.raised THEN [@ EXCEPT !.at = "done", !.out = Threw(st.err)]
               ELSE [@ EXCEPT !.n = @ + 1, !.intermediates = st.intermediates]]
    /\ UNCHANGED << objs, graph, ret, composer >>

\* line 524: the tuple of the outputs
call_return(c) ==
    /\ calls[c].at = "loop"
    /\ calls[c].n > Len(calls[c].order)
    /\ LET f == calls[c]
       IN  calls' = [calls EXCEPT ![c] =
               IF \E n \in 1..Len(f.out_map) : ~DictHas(Table(c), f.out_map[n])
               THEN [@ EXCEPT !.at = "done", !.out = Threw("KeyError")]
               ELSE [@ EXCEPT !.at = "done",
                              !.out = Returned([n \in 1..Len(f.out_map) |->
                                                   DictGet(Table(c), f.out_map[n])])]]
    /\ UNCHANGED << objs, graph, ret, composer >>

\* what caller c may pass: what any client may, and the values of its own
\* passed by position
CallerInputs(c) ==
    LET a == _get_arguments(None)
        entry(name) == CHOOSE n \in 1..Len(a.arg_map) : a.arg_map[n][2] = name
        keyword(n) == a.arg_map[n][1][2]
        occurrence(n) == Cardinality({m \in 1..(n - 1) : keyword(m) = keyword(n)})
        own == [i \in 1..Len(a.inp_type) |->
                   LET n == entry(a.inp_type[i][1])
                   IN  ArgValue(keyword(n), occurrence(n) + 2 * c)]
    IN  CallInputs \cup {NamedCall(a.inp_type, own, Len(a.inp_type))}

\* the graphs the callers share, built as test.py 5-16 builds one: two
\* vertices added, the second at either place of the iteration, and output 0
\* of the first fed to the last keyword of the second
EmptyGraph == [vertices |-> << >>, adjacency |-> << >>, argdeps |-> << >>]
BuiltGraph(u, i) ==
    FuncGraph_feed(
        FuncGraph_add(FuncGraph_add(EmptyGraph, 1, u[1], 1), 2, u[2], i),
        1, 0, 2, u[2].inp_type[Len(u[2].inp_type)][1])

InitCalls ==
    /\ objs \in Universes
    /\ \E i \in 1..2 :
          /\ vertices = BuiltGraph(objs, i).vertices
          /\ adjacency = BuiltGraph(objs, i).adjacency
          /\ argdeps = BuiltGraph(objs, i).argdeps
    /\ input_order = None
    /\ output_order = None
    /\ ret = NoRet
    /\ NoComposer
    /\ module = None
    /\ calls = [c \in 1..MaxCallers |-> IdleCall]
    /\ pc = "client"

NextCalls ==
    \/ \E c \in 1..MaxCallers : \E i \in CallerInputs(c) : call_enter(c, i.args, i.kwargs)
    \/ \E c \in 1..MaxCallers : call_invoke(c)
    \/ \E c \in 1..MaxCallers : call_return(c)

SpecCalls == InitCalls /\ [][NextCalls]_vars

\* ====================================================== the claims
\* the dependency relation (consumer -> producer) and its cycles
Producers(v) ==
    {argdeps[v][j][2][1] : j \in {j \in 1..Len(argdeps[v]) : argdeps[v][j][2] # None}}
RECURSIVE ReachFrom(_, _)
ReachFrom(front, seen) ==
    LET next == UNION {Producers(v) : v \in front} \ seen
    IN  IF next = {} THEN seen ELSE ReachFrom(next, seen \cup next)
OnCycle(v) == v \in ReachFrom({v}, {})
Cyclic == \E v \in Range(vertices) : OnCycle(v)

\* the open slots of the vertices that are not sinks
OpenSlots ==
    UNION {{<< v, e - 1 >> : e \in {e \in 1..Len(adjacency[v]) : adjacency[v][e] = None}} :
              v \in {v \in Range(vertices) : objs[v].cls # "SinkVertex"}}

Occurrences(seq, x) == Cardinality({i \in 1..Len(seq) : seq[i] = x})
IndexOf(seq, x) == CHOOSE i \in 1..Len(seq) : seq[i] = x
Precedes(seq, x, y) ==
    \E i, j \in 1..Len(seq) : i < j /\ seq[i] = x /\ seq[j] = y
NoOutputError == "Graph does not have an output vertex."
CyclicGraphError == "Cyclic graph"

\* C1: on an acyclic graph with an open output slot on a non-sink vertex,
\* _get_topo_order returns a list holding every vertex of nonzero arity
\* exactly once, no vertex of zero arity, and every producer before each
\* vertex that depends on it, whatever the iteration order of the vertex set.
C1_TopoOrderOfAcyclicGraph ==
    (ret.op = "_get_topo_order" /\ ~Cyclic /\ OpenSlots # {}) =>
        /\ ~ret.out.raised
        /\ \A v \in Range(vertices) :
              Occurrences(ret.out.result, v) = IF VLen(objs[v]) > 0 THEN 1 ELSE 0
        /\ Range(ret.out.result) \subseteq Range(vertices)
        /\ \A v \in Range(ret.out.result) : \A q \in Producers(v) :
              Precedes(ret.out.result, q, v)

\* an acyclic graph with a sink, validated while some consumer is met
\* before its producer in the iteration of the vertex set
C1_Witness ==
    /\ ret.op = "_get_topo_order" /\ ~Cyclic /\ OpenSlots # {}
    /\ ~ret.out.raised /\ Len(ret.out.result) >= 2
    /\ \E v \in Range(vertices) : VLen(objs[v]) = 0
    /\ \E v \in Range(vertices) : \E q \in Producers(v) : Precedes(vertices, v, q)

\* C2: on a graph whose dependency relation has a cycle, _get_topo_order
\* raises the cyclic-graph error, whatever vertex the traversal starts from.
C2_CycleRaises ==
    (ret.op = "_get_topo_order" /\ Cyclic) =>
        ret.out.raised /\ ret.out.err = CyclicGraphError

\* a cycle reached from a first vertex that is not on it
C2_Witness ==
    /\ ret.op = "_get_topo_order" /\ Cyclic
    /\ ~OnCycle(vertices[1]) /\ Producers(vertices[1]) # {}
    /\ ret.out.raised

\* C3: with no open output slot on any non-sink vertex, get_out_type, call
\* and straight_line raise the no-output error and return nothing.
C3_NoOutputRaises ==
    (ret.op \in {"get_out_type", "call", "straight_line"} /\ OpenSlots = {}) =>
        /\ ret.out.raised
        /\ ret.out.err = NoOutputError
        /\ ret.out.result = << >>

\* a call of a graph whose only output is fed to a sink
C3_Witness ==
    /\ ret.op = "call" /\ OpenSlots = {} /\ ret.out.raised
    /\ \E v \in Range(vertices) :
          objs[v].cls = "SinkVertex" /\ Producers(v) # {}

\* the vertices a call invoked, in order
Invoked(trace) == [n \in 1..Len(trace) |-> trace[n].vertex]

\* ---- the graph of the end-to-end scenario: a = int_add, b = str_repeat,
\* ---- output 0 of a fed to keyword n of b, nothing else
C5_Graph(a, b) ==
    /\ Range(vertices) = {a, b}
    /\ objs[a].func = "int_add" /\ objs[b].func = "str_repeat"
    /\ argdeps[a] = << <<"x", None>>, <<"y", None>> >>
    /\ argdeps[b] = << <<"s", None>>, <<"n", <<a, 0>> >> >>
    /\ adjacency[a] = << << <<b, "n">> >> >>
    /\ adjacency[b] = << None >>

C5_Scenario(x, y, s) ==
    \A a, b \in Range(vertices) : C5_Graph(a, b) =>
        /\ ret.op = "get_inp_type" =>
              /\ Len(ret.out.result) = 3
              /\ Range(ret.out.result) = {<<x, "int">>, <<y, "int">>, <<s, "str">>}
        /\ (/\ ret.op = "call"
            /\ ret.args = << >>
            /\ Len(ret.kwargs) = 3
            /\ Range(ret.kwargs) =
                  {<<s, StrV("a")>>, <<x, IntV(2)>>, <<y, IntV(3)>>}) =>
              /\ ~ret.out.raised
              /\ ret.out.result = << StrV("aaaaa") >>
              /\ Invoked(ret.out.trace) = << a, b >>

UnboundPairs ==
    UNION {{<< v, argdeps[v][j][1] >> :
               j \in {j \in 1..Len(argdeps[v]) : argdeps[v][j][2] = None}} :
              v \in Range(vertices)}
BoundPairs ==
    UNION {{<< v, argdeps[v][j][1] >> :
               j \in {j \in 1..Len(argdeps[v]) : argdeps[v][j][2] # None}} :
              v \in Range(vertices)}
\* the unbound occurrences of p's keyword met before p
EarlierOccurrences(p) ==
    {q \in UnboundPairs :
        q[2] = p[2] /\ IndexOf(vertices, q[1]) < IndexOf(vertices, p[1])}

Consumers(slot) == {q \in BoundPairs : DictGet(argdeps[q[1]], q[2]) = slot}
\* the output slots bound to the keywords of several consumers
FanOutSlots ==
    {slot \in UNION {{<< v, e - 1 >> : e \in 1..Len(adjacency[v])} : v \in Range(vertices)} :
        Cardinality(Consumers(slot)) >= 2}
\* the invocation of vertex v in a trace that holds it
InvocationOf(trace, v) == trace[IndexOf(Invoked(trace), v)]

\* C7 (as stated): when one output slot is bound to the keywords of several
\* consumers, a call that returns has invoked the producer exactly once, and
\* every consumer after the producer and with the value computed for that slot.
C7_AsStated ==
    (ret.op = "call" /\ ~ret.out.raised) =>
        \A slot \in FanOutSlots :
            LET p == slot[1]
                inv == Invoked(ret.out.trace)
            IN  /\ Occurrences(inv, p) = 1
                /\ \A q \in Consumers(slot) :
                      /\ Precedes(inv, p, q[1])
                      /\ DictGet(InvocationOf(ret.out.trace, q[1]).kwargs, q[2]) =
                            InvocationOf(ret.out.trace, p).result[slot[2] + 1]

\* C7 (amended): when one output slot is bound to the keywords of several
\* consumers, a call invokes the producer at most once, never invokes a
\* consumer of zero arity, and invokes a consumer only after the producer and
\* with the value computed for that slot; a call that returns has invoked the
\* producer and every consumer of nonzero arity exactly once.
C7_FanOut ==
    ret.op = "call" =>
        \A slot \in FanOutSlots :
            LET p == slot[1]
                trace == ret.out.trace
                inv == Invoked(trace)
            IN  /\ Occurrences(inv, p) <= 1
                /\ ~ret.out.raised => Occurrences(inv, p) = 1
                /\ \A q \in Consumers(slot) :
                      /\ VLen(objs[q[1]]) = 0 => Occurrences(inv, q[1]) = 0
                      /\ (~ret.out.raised /\ VLen(objs[q[1]]) > 0) =>
                            Occurrences(inv, q[1]) = 1
                      /\ \A n \in 1..Len(trace) : trace[n].vertex = q[1] =>
                            /\ Precedes(inv, p, q[1])
                            /\ DictGet(trace[n].kwargs, q[2]) =
                                  InvocationOf(trace, p).result[slot[2] + 1]

\* a call returned on a graph where one slot feeds two function vertices
C7_Witness ==
    /\ ret.op = "call" /\ ~ret.out.raised
    /\ \E slot \in FanOutSlots : \E q1, q2 \in Consumers(slot) :
          /\ q1[1] # q2[1]
          /\ VLen(objs[q1[1]]) > 0 /\ VLen(objs[q2[1]]) > 0
          /\ Precedes(vertices, q1[1], slot[1])

\* ---- output discovery and its reordering
\* the open slots of the non-sink vertices, in traversal order, and their types
OpenSlotsOf(v) ==
    SelectSeq([e \in 1..Len(adjacency[v]) |-> << v, e - 1 >>],
              LAMBDA sl : adjacency[sl[1]][sl[2] + 1] = None)
DiscoveredOutputs ==
    Flatten([n \in 1..Len(vertices) |->
                IF objs[vertices[n]].cls = "SinkVertex" THEN << >>
                ELSE OpenSlotsOf(vertices[n])])
SlotType(sl) == objs[sl[1]].out_type[sl[2] + 1]
DiscoveredTypes == [n \in 1..Len(DiscoveredOutputs) |-> SlotType(DiscoveredOutputs[n])]
OpenConstantSlot ==
    \E sl \in OpenSlots : objs[sl[1]].cls = "ConstVertex"

\* what the claim says of an outcome r of _get_outputs
ReorderedOutputs(r) ==
    /\ ~r.raised
    /\ Len(r.result.out_map) = Len(DiscoveredOutputs)
    /\ Range(r.result.out_map) = Range(DiscoveredOutputs)
    /\ Len(r.result.out_type) = Len(r.result.out_map)
    /\ \A n \in 1..Len(r.result.out_map) :
          r.result.out_type[n] = SlotType(r.result.out_map[n])
    /\ IF output_order # None /\ CounterEq(DiscoveredTypes, output_order[1])
       THEN r.result.out_type = output_order[1]
       ELSE r.result.out_map = DiscoveredOutputs

\* C8 (as stated): the discovered outputs are the open slots of the non-sink
\* vertices; when output_order is set and its multiset of types equals that of
\* the discovered types, the returned types equal output_order position by
\* position and the returned slots are a permutation of the discovered ones,
\* each of the type at its position; otherwise the discovered order is returned.
C8_AsStated ==
    (ret.op = "get_out_type" /\ OpenSlots # {}) =>
        /\ ReorderedOutputs(ret.via)
        /\ ret.out = Returned(ret.via.result.out_type)

\* C8 (what the code does): the same, on the graphs whose constants are all
\* consumed; an open slot of a constant vertex makes output discovery raise
\* TypeError instead.
C8_ExceptOpenConstants ==
    (ret.op = "get_out_type" /\ OpenSlots # {}) =>
        IF OpenConstantSlot
        THEN ret.out.raised /\ ret.out.err = "TypeError"
        ELSE /\ ReorderedOutputs(ret.via)
             /\ ret.out = Returned(ret.via.result.out_type)

\* output discovery raised TypeError on a graph with an open constant slot
C8_OpenConstantRaises ==
    /\ ret.op = "get_out_type" /\ OpenConstantSlot
    /\ ret.out.raised /\ ret.out.err = "TypeError"

\* outputs reordered: output_order matches and differs from the discovered order
C8_Reordered ==
    /\ ret.op = "get_out_type" /\ ~ret.out.raised
    /\ output_order # None /\ CounterEq(DiscoveredTypes, output_order[1])
    /\ DiscoveredTypes # output_order[1]

\* ---- input reordering and the binding of a call's arguments
\* the name C6 gives the argument of an unbound pair, and its declared type
NameOf(p) == p[2] \o ToString(Cardinality(EarlierOccurrences(p)))
TypeOf(p) == DictGet(objs[p[1]].inp_type, p[2])
\* the arguments in the order discovery meets them
UnboundOf(v) ==
    SelectSeq([j \in 1..Len(argdeps[v]) |-> << v, argdeps[v][j][1] >>],
              LAMBDA p : DictGet(argdeps[p[1]], p[2]) = None)
DiscoveredPairs == Flatten([n \in 1..Len(vertices) |-> UnboundOf(vertices[n])])
DiscoveredArguments ==
    [n \in 1..Len(DiscoveredPairs) |->
        << NameOf(DiscoveredPairs[n]), TypeOf(DiscoveredPairs[n]) >>]
InputOrderApplies ==
    input_order # None /\ CounterEq(DictValues(DiscoveredArguments), input_order[1])

\* the value a call supplies for the argument called name: the i-th positional
\* value for the i-th argument of get_inp_type(), else the keyword argument
Position(name) == IndexOf(DictKeys(get_inp_type.result), name)
Supplied(name) ==
    Position(name) <= Len(ret.args) \/ DictHas(ret.kwargs, name)
SuppliedValue(name) ==
    IF Position(name) <= Len(ret.args) THEN ret.args[Position(name)]
    ELSE DictGet(ret.kwargs, name)

RECURSIVE BindAll(_, _, _, _)
BindAll(env, names, values, n) ==
    IF n > Len(names) \/ n > Len(values) THEN env
    ELSE BindAll(DictSet(env, names[n], values[n]), names, values, n + 1)

RECURSIVE EvalArguments(_, _, _, _)
EvalArguments(computation, j, env, acc) ==
    IF acc.raised \/ j > Len(computation) THEN acc
    ELSE IF ~DictHas(env, computation[j][3]) THEN [acc EXCEPT !.raised = TRUE]
    ELSE EvalArguments(computation, j + 1, env,
            [acc EXCEPT !.kw = DictSet(@, computation[j][1],
                                       DictGet(env, computation[j][3]))])

RECURSIVE EvalLines(_, _, _)
EvalLines(lines, n, st) ==
    IF st.raised \/ n > Len(lines) THEN st
    ELSE LET a == EvalArguments(lines[n].computation, 1, st.env,
                                [kw |-> << >>, raised |-> FALSE])
             r == VCall(objs[lines[n].vertex], a.kw)
         IN  IF a.raised THEN [st EXCEPT !.raised = TRUE, !.err = "KeyError"]
             ELSE IF r.raised THEN [st EXCEPT !.raised = TRUE, !.err = r.err]
             ELSE IF Len(r.result) < Len(lines[n].names)
             THEN [st EXCEPT !.raised = TRUE, !.err = "IndexError"]
             ELSE EvalLines(lines, n + 1,
                    [st EXCEPT !.env = BindAll(@, lines[n].names, r.result, 1)])

EvalProgram(prog, args, kwargs) ==
    LET named == [n \in 1..Len(kwargs) |-> << arg_ref(kwargs[n][1]), kwargs[n][2] >>]
        env0 == BindAll(named, DictKeys(prog.input), args, 1)
        st == EvalLines(prog.lines, 1, [env |-> env0, raised |-> FALSE, err |-> ""])
    IN  IF st.raised THEN Threw(st.err)
        ELSE IF \E n \in 1..Len(prog.returns) : ~DictHas(st.env, prog.returns[n])
        THEN Threw("KeyError")
        ELSE Returned([n \in 1..Len(prog.returns) |-> DictGet(st.env, prog.returns[n])])

LineVertices(prog) == [n \in 1..Len(prog.lines) |-> prog.lines[n].vertex]
\* the variable the program binds to output slot sl
VariableOf(prog, sl) == prog.lines[IndexOf(LineVertices(prog), sl[1])].names[sl[2] + 1]
IsPrefix(s, t) == Len(s) <= Len(t) /\ s = SubSeq(t, 1, Len(s))

\* the program prog against the outcome r of one call
SameWalk(prog, r) ==
    /\ IsPrefix(Invoked(r.trace), LineVertices(prog))
    /\ ~r.raised => Invoked(r.trace) = LineVertices(prog)
    /\ \A n \in 1..Len(r.trace) :
          /\ DictKeys(prog.lines[n].computation) = DictKeys(r.trace[n].src)
          /\ \A j \in 1..Len(prog.lines[n].computation) :
                LET kwd == prog.lines[n].computation[j][1]
                    expr == prog.lines[n].computation[j][3]
                    src == DictGet(r.trace[n].src, kwd)
                IN  /\ prog.lines[n].computation[j][2] =
                          DictGet(objs[r.trace[n].vertex].inp_type, kwd)
                    /\ expr = IF src.ext THEN arg_ref(src.name)
                              ELSE VariableOf(prog, src.slot)
SameReturns(prog, r) ==
    LET out_map == _get_outputs(None).result.out_map
    IN  /\ Len(prog.returns) = Len(out_map)
        /\ \A n \in 1..Len(out_map) : prog.returns[n] = VariableOf(prog, out_map[n])
        /\ ~r.raised =>
              r.result = [n \in 1..Len(out_map) |->
                            InvocationOf(r.trace, out_map[n][1]).result[out_map[n][2] + 1]]

\* C10: straight_line renders one line per vertex in the order the call
\* walks, every argument expression names the external argument or the
\* producer slot the call reads for that keyword, the RETURN line names the
\* slots of the call's result in its order, and evaluating the program on the
\* inputs of a call gives the outcome of that call; on a graph where
\* straight_line raises, the call raises the same error.
C10_ProgramMatchesCall ==
    ret.op = "straight_line" =>
        \A c \in CallInputs :
            LET r == __call__(c.args, c.kwargs)
                prog == ret.out.result
            IN  IF ret.out.raised THEN r.raised /\ r.err = ret.out.err
                ELSE /\ Len(prog.lines) =
                           Cardinality({v \in Range(vertices) : VLen(objs[v]) > 0})
                     /\ SameWalk(prog, r)
                     /\ SameReturns(prog, r)
                     /\ EvalProgram(prog, c.args, c.kwargs) =
                           [raised |-> r.raised, err |-> r.err, result |-> r.result]

\* a program of two lines, one reading an argument and the other a variable,
\* returning two values, with a call that returns
C10_Witness ==
    /\ ret.op = "straight_line" /\ ~ret.out.raised
    /\ Len(ret.out.result.returns) >= 2
    /\ \E n \in 1..Len(ret.out.result.lines) :
          \E j, k \in 1..Len(ret.out.result.lines[n].computation) :
              /\ ret.out.result.lines[n].computation[j][3] \in
                    Range(DictKeys(ret.out.result.input))
              /\ \E m \in 1..(n - 1) :
                    ret.out.result.lines[n].computation[k][3] \in
                        Range(ret.out.result.lines[m].names)
    /\ \E c \in CallInputs : ~__call__(c.args, c.kwargs).raised

\* ---- the graphs sample returns
\* what the claim says of a returned graph, but for the two queries
C4_Tagged ==
    /\ input_order = << request.input_type >>
    /\ output_order = << request.output_type >>
    /\ CounterEq(DictValues(DiscoveredArguments), request.input_type)
    /\ CounterEq(DiscoveredTypes, request.output_type)
\* what the claim says of the two queries on a returned graph
C4_Queries ==
    /\ ret.op = "get_out_type" =>
          ~ret.out.raised /\ ret.out.result = request.output_type
    /\ ret.op = "get_inp_type" =>
          ~ret.out.raised /\ DictValues(ret.out.result) = request.input_type

\* C4 (as stated): every graph sample returns is tagged with input_order =
\* input_type and output_order = output_type, the types of its unbound
\* keywords and of its open non-sink slots are input_type and output_type as
\* multisets, get_out_type() equals output_type and the values of
\* get_inp_type() equal input_type position by position.
C4_AsStated ==
    pc = "returned" => C4_Tagged /\ C4_Queries

\* C4 (what the code does): the same for a request with at least one output
\* type; for output_type = () the returned graph has no open non-sink slot
\* and get_out_type() raises the no-output ValueError.
C4_ExceptEmptyOutput ==
    pc = "returned" =>
        /\ C4_Tagged
        /\ IF request.output_type = << >>
           THEN /\ OpenSlots = {}
                /\ ret.op = "get_out_type" =>
                      ret.out.raised /\ ret.out.err = NoOutputError
                /\ ret.op = "get_inp_type" =>
                      ~ret.out.raised /\ DictValues(ret.out.result) = request.input_type
           ELSE C4_Queries

\* a graph returned for output_type = () was asked its output types and raised
C4_EmptyOutputRaises ==
    /\ pc = "returned" /\ request.output_type = << >>
    /\ Len(vertices) > 0
    /\ ret.op = "get_out_type" /\ ret.out.raised

\* a returned graph whose arguments were discovered in another order than the
\* requested one answered get_inp_type() in the requested order
C4_Witness ==
    /\ pc = "returned" /\ request.output_type # << >>
    /\ Len(request.input_type) >= 2
    /\ DictValues(DiscoveredArguments) # request.input_type
    /\ ret.op = "get_inp_type" /\ ~ret.out.raised
    /\ DictValues(ret.out.result) = request.input_type

\* ---- the queries read the graph and leave it alone
IsQuery(op) == op \in {"call", "straight_line", "get_inp_type", "get_out_type"}

\* C11: a step in which call, straight_line, get_inp_type or get_out_type
\* answers, with a result or with an error, leaves vertices, adjacency,
\* argdeps, input_order and output_order as they were.
C11_QueriesLeaveTheGraph ==
    [][(ret' # ret /\ IsQuery(ret'.op)) =>
          /\ vertices' = vertices
          /\ adjacency' = adjacency
          /\ argdeps' = argdeps
          /\ input_order' = input_order
          /\ output_order' = output_order]_vars

\* a query answered with an error on a graph that has edges and an ordering
C11_Witness ==
    /\ IsQuery(ret.op) /\ ret.out.raised
    /\ NumEdges > 0
    /\ output_order # None

\* ---- calls interleaved
\* the outcome of a call made alone
Alone(args, kwargs) ==
    LET r == __call__(args, kwargs)
    IN  [raised |-> r.raised, err |-> r.err, result |-> r.result]

\* C12: every call of the graph that ends while other calls of the same graph
\* are under way, interleaved at single vertex invocations, ends as the same
\* call ends when made alone; two calls with the same arguments end alike.
C12_InterleavedCallsAsAlone ==
    \A c \in DOMAIN calls :
        calls[c].at = "done" =>
            /\ calls[c].out = Alone(calls[c].args, calls[c].kwargs)
            /\ \A d \in DOMAIN calls :
                  (/\ calls[d].at = "done"
                   /\ calls[d].args = calls[c].args
                   /\ calls[d].kwargs = calls[c].kwargs) => calls[d].out = calls[c].out

\* a call has returned while another call, made with other values, stands
\* between two of its vertex invocations
C12_Witness ==
    \E c, d \in DOMAIN calls :
        /\ calls[c].at = "done" /\ ~calls[c].out.raised
        /\ calls[d].at = "loop" /\ calls[d].n = 2 /\ Len(calls[d].order) = 2
        /\ calls[d].bound # calls[c].bound

\* ---- what the caller of sample observes
\* C13 (as stated): no failure of the composer reaches the caller of sample:
\* sample never ends in a raised error, and an attempt given up for its
\* depth is never handed back but followed by a fresh attempt.
C13_AsStated ==
    /\ pc # "raised"
    /\ pc = "returned" => depth <= request.max_depth

\* C13 (what the code does): a TypeError raised by the comparison of two heap
\* entries of equal depth, one of them a graph output (d, None, None), leaves
\* sample; so does the IndexError of a choice among no candidates.
C13_ErrorEscapes ==
    /\ pc = "raised"
    /\ ret.op = "sample" /\ ret.out.raised
    /\ ret.out.err = "TypeError"
    /\ Len(vertices) > 0

\* C13: an attempt given up for its depth has left no graph behind once the
\* next attempt has begun
C13_AbortIsRetried ==
    [][pc = "aborted" => (pc' = "while" /\ vertices' = << >> /\ depth' = 0
                            /\ request' = request)]_vars

\* ---- the scenario's request
IsScenario(req) ==
    /\ req # None
    /\ req.input_type = << "int", "str", "float" >>
    /\ req.output_type = << "int", "str" >>
    /\ req.max_depth = ScenarioDepth

\* C14 (as stated): for input types (int, str, float), output types
\* (int, str) and max depth 4, with a library that covers the three types,
\* every attempt of sample ends in success or in a depth abort, so that
\* sample, retrying, can still return: no attempt ends sample with an error.
C14_AsStated ==
    IsScenario(request) => pc # "raised"

\* C14 (what the code does): an attempt for the scenario's request ended
\* sample with the TypeError of C13
C14_ScenarioRaises ==
    /\ IsScenario(request)
    /\ pc = "raised" /\ ret.out.err = "TypeError"

\* C14: an attempt for the scenario's request ended in success
C14_ScenarioReturns ==
    /\ IsScenario(request)
    /\ pc = "returned"
    /\ CounterEq(DictValues(DiscoveredArguments), request.input_type)
    /\ CounterEq(DiscoveredTypes, request.output_type)

\* ---- results of another length than the declared arity
\* the invocations of a call whose result is shorter, or longer, than the
\* vertex's declared arity
ShortResults(trace) ==
    {n \in 1..Len(trace) : Len(trace[n].result) < VLen(objs[trace[n].vertex])}
LongResults(trace) ==
    {n \in 1..Len(trace) : Len(trace[n].result) > VLen(objs[trace[n].vertex])}

\* C15 (as stated): a call in which some vertex invocation returns a result
\* shorter or longer than the vertex's declared arity fails with an error and
\* returns no result tuple.
C15_AsStated ==
    ret.op = "call" =>
        (ShortResults(ret.out.trace) \cup LongResults(ret.out.trace) # {} =>
            ret.out.raised /\ ret.out.result = << >>)

\* C15 (what the code does): a result shorter than the arity ends the call
\* with IndexError; of a longer result the surplus values are dropped and,
\* unless the call fails otherwise, the call returns.
C15_OnlyShortResultsRaise ==
    ret.op = "call" =>
        /\ ShortResults(ret.out.trace) # {} =>
              ret.out.raised /\ ret.out.err = "IndexError" /\ ret.out.result = << >>
        /\ (ShortResults(ret.out.trace) = {} /\ ret.out.raised) =>
              ret.out.err \in {NoOutputError, CyclicGraphError, "KeyError", "TypeError"}

\* a call returned although a vertex had returned three values for its two
\* declared outputs
C15_LongResultAccepted ==
    /\ ret.op = "call" /\ ~ret.out.raised
    /\ LongResults(ret.out.trace) # {}
    /\ NumEdges > 0

\* a call raised IndexError on a vertex that returned one value for two
C15_ShortResultRaises ==
    /\ ret.op = "call" /\ ret.out.raised /\ ret.out.err = "IndexError"
    /\ ShortResults(ret.out.trace) # {}

\* ---- when a cycle is reported
\* C17 (as stated): a feed that closes a cycle aborts, so that no state whose
\* dependency relation has a cycle is reached through add and feed.
C17_AsStated == ~Cyclic

\* C17 (amended): the feed that closes a cycle completes as any feed does,
\* with one edge more and no error, and the graph holds the cycle; the cycle
\* is reported when the graph is validated: a call or a straight_line of a
\* graph with a cycle returns nothing and raises the cyclic-graph error,
\* unless output discovery, which comes first, raised.
C17_CycleReportedWhenValidated ==
    /\ [][(~Cyclic /\ Cyclic') =>
             /\ ret' = ret
             /\ vertices' = vertices
             /\ NumEdges' = NumEdges + 1]_vars
    /\ []((Cyclic /\ ret.op \in {"call", "straight_line"}) =>
             /\ ret.out.raised
             /\ ret.out.err = IF _get_outputs(None).raised
                              THEN _get_outputs(None).err ELSE CyclicGraphError)

\* a call has reported a cycle that the first vertex of the iteration is
\* not on
C17_Witness ==
    /\ Cyclic
    /\ ~OnCycle(vertices[1])
    /\ ret.op = "call" /\ ret.out.raised /\ ret.out.err = CyclicGraphError

\* ---- what a feed changes
\* the step appended (dst, kwd) to adjacency[src][idx] and changed no other slot
AppendedTo(src, idx, dst, kwd) ==
    /\ DOMAIN adjacency' = DOMAIN adjacency
    /\ \A v \in DOMAIN adjacency :
          /\ Len(adjacency'[v]) = Len(adjacency[v])
          /\ \A e \in 1..Len(adjacency[v]) :
                adjacency'[v][e] = IF v = src /\ e = idx + 1
                                   THEN adjacency[v][e] \o << << dst, kwd >> >>
                                   ELSE adjacency[v][e]
\* the step set argdeps[dst][kwd] to (src, idx) and changed no other entry
BoundTo(src, idx, dst, kwd) ==
    /\ DOMAIN argdeps' = DOMAIN argdeps
    /\ \A v \in DOMAIN argdeps :
          /\ DictKeys(argdeps'[v]) = DictKeys(argdeps[v])
          /\ \A j \in 1..Len(argdeps[v]) :
                argdeps'[v][j][2] = IF v = dst /\ argdeps[v][j][1] = kwd
                                    THEN << src, idx >>
                                    ELSE argdeps[v][j][2]
\* the call handed every vertex it invoked, for each keyword that has a
\* producer, the value the invocation of that producer returned in its slot
DeliversProducers(trace) ==
    \A n \in 1..Len(trace) :
        \A j \in 1..Len(argdeps[trace[n].vertex]) :
            LET kwd == argdeps[trace[n].vertex][j][1]
                dep == argdeps[trace[n].vertex][j][2]
            IN  dep # None =>
                    \E k \in 1..(n - 1) :
                        /\ trace[k].vertex = dep[1]
                        /\ DictGet(trace[n].kwargs, kwd) = trace[k].result[dep[2] + 1]

\* C18: a step that changes an edge of a graph whose vertices stay is a
\* feed(src, idx, dst, kwd): it appends (dst, kwd) to adjacency[src][idx]
\* after the consumers the slot had, sets argdeps[dst][kwd] to (src, idx)
\* whatever producer it had, and changes no other slot, entry, vertex or
\* ordering; a call delivers to every keyword the value of the producer
\* argdeps holds for it, which is the producer fed last.
C18_FeedAppendsAndOverwrites ==
    /\ [][(vertices' = vertices /\ << adjacency, argdeps >>' # << adjacency, argdeps >>) =>
          /\ input_order' = input_order
          /\ output_order' = output_order
          /\ objs' = objs
          /\ \E src \in DOMAIN adjacency, dst \in DOMAIN argdeps :
             \E idx \in 0..(Len(adjacency[src]) - 1),
                kwd \in Range(DictKeys(argdeps[dst])) :
                   /\ AppendedTo(src, idx, dst, kwd)
                   /\ BoundTo(src, idx, dst, kwd)]_vars
    /\ [](ret.op = "call" => DeliversProducers(ret.out.trace))

\* a keyword fed from two producers, and a call that returned after it had
\* invoked the consumer
C18_Witness ==
    /\ ret.op = "call" /\ ~ret.out.raised
    /\ \E dst \in DOMAIN argdeps : \E j \in 1..Len(argdeps[dst]) :
          /\ argdeps[dst][j][2] # None
          /\ \E n \in 1..Len(ret.out.trace) : ret.out.trace[n].vertex = dst
          /\ \E v \in DOMAIN adjacency : \E e \in 1..Len(adjacency[v]) :
                /\ << v, e - 1 >> # argdeps[dst][j][2]
                /\ << dst, argdeps[dst][j][1] >> \in Range(adjacency[v][e])

\* ---- calls with a miscounted argument list
\* the external arguments a call supplied neither by position nor by name
Unsupplied(call) ==
    LET inp_type == _get_arguments(None).inp_type
    IN  {i \in 1..Len(inp_type) :
            i > Len(call.args) /\ ~DictHas(call.kwargs, inp_type[i][1])}
\* the call passed more positional values than the graph has external
\* arguments
Surplus(call) == Len(call.args) > Len(_get_arguments(None).inp_type)

\* C16 (as stated): a call raises when some external argument is supplied
\* neither positionally nor by keyword, and it raises when more positional
\* values are supplied than the graph has external arguments.
C16_AsStated ==
    ret.op = "call" => ((Unsupplied(ret) # {} \/ Surplus(ret)) => ret.out.raised)

\* a call returned a result although it was given one positional value more
\* than the graph has external arguments
C16_SurplusAccepted ==
    /\ ret.op = "call" /\ ~ret.out.raised
    /\ Surplus(ret)
    /\ Len(ret.out.trace) > 0

\* a call returned a result although an external argument, the input of a
\* sink, was not supplied
C16_UnsuppliedAccepted ==
    /\ ret.op = "call" /\ ~ret.out.raised
    /\ Unsupplied(ret) # {}
    /\ Len(ret.out.trace) > 0

\* C16 (what the code does): a call left without an external argument
\* raises KeyError when a vertex it invokes takes that argument
C16_UnsuppliedRaisesWhenRead ==
    ret.op = "call" =>
        LET a == _get_arguments(None)
            read == {i \in Unsupplied(ret) :
                        \E n \in 1..Len(a.arg_map) :
                           /\ a.arg_map[n][2] = a.inp_type[i][1]
                           /\ VLen(objs[a.arg_map[n][1][1]]) > 0}
        IN  read # {} => ret.out.raised

\* a call left without an external argument raised KeyError
C16_UnsuppliedRaises ==
    /\ ret.op = "call" /\ ret.out.raised /\ ret.out.err = "KeyError"
    /\ Unsupplied(ret) # {}

\* ---- add of any vertex
\* every adjacency list and every dependency entry of the vertices in vs is
\* after the step as it was before
EntriesKept(vs) ==
    \A v \in vs :
        /\ v \in DOMAIN adjacency => (v \in DOMAIN adjacency' /\ adjacency'[v] = adjacency[v])
        /\ v \in DOMAIN argdeps => (v \in DOMAIN argdeps' /\ argdeps'[v] = argdeps[v])
\* after the step the entries of v are all open and all unbound
EntriesBlank(v) ==
    /\ adjacency'[v] = [e \in 1..VLen(objs[v]) |-> None]
    /\ argdeps'[v] = [j \in 1..Len(objs[v].inp_type) |-> << objs[v].inp_type[j][1], None >>]

\* C19 (as stated): add(v), in any state and for any v, a registered vertex
\* with edges included, leaves every existing adjacency list and every
\* existing dependency entry as it was, and only creates the all-open,
\* all-unbound entries of a vertex that had none.
C19_AsStated ==
    [][ret'.op = "add" =>
          /\ EntriesKept(DOMAIN adjacency \cup DOMAIN argdeps)
          /\ EntriesBlank(ret'.new)]_vars

\* C19 (what the code does): add(v) leaves the entries of every other vertex
\* as they were and makes the entries of v all open and all unbound, whether
\* v had entries or not; a vertex that is registered keeps its place.
C19_AddBlanksItsVertex ==
    [][ret'.op = "add" =>
          /\ EntriesKept((DOMAIN adjacency \cup DOMAIN argdeps) \ {ret'.new})
          /\ EntriesBlank(ret'.new)
          /\ ret'.known => vertices' = vertices]_vars

\* add was given a registered vertex whose output another vertex takes: its
\* slot is open again while the other vertex still names it as the producer
C19_AddOpenedFedSlot ==
    /\ ret.op = "add" /\ ret.known
    /\ \E dst \in DOMAIN argdeps \ {ret.new} :
          \E j \in 1..Len(argdeps[dst]) :
             /\ argdeps[dst][j][2] # None
             /\ argdeps[dst][j][2][1] = ret.new
             /\ adjacency[ret.new][ListIndex(Len(adjacency[ret.new]), argdeps[dst][j][2][2]) + 1] = None

\* add was given a registered vertex one of whose inputs is fed: the input
\* is unbound again while the producer's slot still lists it
C19_AddUnboundFedKeyword ==
    /\ ret.op = "add" /\ ret.known
    /\ \E src \in DOMAIN adjacency \ {ret.new} :
          \E e \in 1..Len(adjacency[src]) :
             \E n \in 1..Len(adjacency[src][e]) :
                /\ adjacency[src][e][n][1] = ret.new
                /\ DictHas(argdeps[ret.new], adjacency[src][e][n][2])
                /\ DictGet(argdeps[ret.new], adjacency[src][e][n][2]) = None

\* ---- the shape of the entries, and feeds outside the requirements
\* each registered vertex has an adjacency array of its arity and a
\* dependency mapping over exactly its keywords
EntriesFullShape ==
    \A v \in Range(vertices) :
        /\ Len(adjacency[v]) = VLen(objs[v])
        /\ DictKeys(argdeps[v]) = DictKeys(objs[v].inp_type)
\* the feed noted in r names a slot outside 0..arity-1 of its source, or a
\* keyword that its destination does not declare
SlotOutOfRange(r) ==
    r.src \in DOMAIN adjacency => r.idx \notin 0..(Len(adjacency[r.src]) - 1)
KeywordUndeclared(r) == ~DictHas(objs[r.dst].inp_type, r.kwd)

\* C20 (as stated): in every state reached by add and by feed calls that
\* complete without error each registered vertex has an adjacency array of
\* length exactly its arity and a dependency mapping whose key set is
\* exactly its keywords; a feed whose slot is out of range for src or whose
\* keyword is not in dst's input_spec does not complete and leaves adjacency
\* and dependency unchanged.
C20_AsStated ==
    /\ [](EntriesFullShape)
    /\ [][(ret'.op = "feed" /\ (SlotOutOfRange(ret') \/ KeywordUndeclared(ret'))) =>
             /\ ret'.out.raised
             /\ adjacency' = adjacency
             /\ argdeps' = argdeps]_vars

\* C20 (what the code does): every adjacency array has the length of its
\* vertex's arity and every dependency mapping has at least its vertex's
\* keywords; a feed whose slot is outside -arity..arity-1 raises IndexError
\* and changes nothing; a feed into a registered vertex from a slot within
\* -arity..arity-1 of a registered vertex completes, whatever the keyword.
C20_WhatFeedChecks ==
    /\ [](\A v \in Range(vertices) :
             /\ Len(adjacency[v]) = VLen(objs[v])
             /\ Range(DictKeys(objs[v].inp_type)) \subseteq Range(DictKeys(argdeps[v])))
    /\ [][(ret'.op = "feed" /\ ret'.src \in DOMAIN adjacency /\ ret' # ret) =>
             LET len == Len(adjacency[ret'.src])
             IN  IF ret'.idx \notin (0 - len)..(len - 1)
                 THEN /\ ret'.out.raised /\ ret'.out.err = "IndexError"
                      /\ adjacency' = adjacency /\ argdeps' = argdeps
                 ELSE ret'.dst \in DOMAIN argdeps => ~ret'.out.raised]_vars

\* a feed that names a keyword its destination does not declare completed
\* and the destination now has a dependency entry under that keyword
C20_UndeclaredKeywordBound ==
    /\ ret.op = "feed" /\ ~ret.out.raised
    /\ KeywordUndeclared(ret)
    /\ DictHas(argdeps[ret.dst], ret.kwd)
    /\ ~EntriesFullShape

\* a feed from slot -1 completed and the destination names slot -1 as the
\* producer
C20_NegativeSlotBound ==
    /\ ret.op = "feed" /\ ~ret.out.raised
    /\ ret.idx < 0
    /\ DictGet(argdeps[ret.dst], ret.kwd) = << ret.src, ret.idx >>

\* a feed into a vertex that was not added raised after it had appended to
\* the source's adjacency list
C20_RaisedAfterAppending ==
    /\ ret.op = "feed" /\ ret.out.raised
    /\ ret.dst \notin DOMAIN argdeps
    /\ ret.src \in DOMAIN adjacency
    /\ \E e \in 1..Len(adjacency[ret.src]) :
          \E n \in 1..Len(adjacency[ret.src][e]) : adjacency[ret.src][e][n] = << ret.dst, ret.kwd >>

\* ---- the two edge indices
\* the slots (src, idx) of the graph, and the (dst, kwd) pairs a slot lists
GraphSlots ==
    UNION {{<< v, e - 1 >> : e \in 1..Len(adjacency[v])} : v \in Range(vertices)}
Listed(slot) == Range(adjacency[slot[1]][slot[2] + 1])
\* the (dst, kwd) pairs of the graph, and the producer of one (None: unbound)
GraphKeywords ==
    UNION {{<< v, argdeps[v][j][1] >> : j \in 1..Len(argdeps[v])} : v \in Range(vertices)}
ProducerOf(q) == DictGet(argdeps[q[1]], q[2])
\* how many times the adjacency lists name the pair q
Listings(q) ==
    SumLen(Flatten([n \in 1..Len(vertices) |->
              [e \in 1..Len(adjacency[vertices[n]]) |->
                  SelectSeq(adjacency[vertices[n]][e], LAMBDA c : c = q)]]))

Edges ==
    UNION {{<< argdeps[v][j][2][1], argdeps[v][j][2][2], v, argdeps[v][j][1] >> :
               j \in {j \in 1..Len(argdeps[v]) : argdeps[v][j][2] # None}} :
              v \in Range(vertices)}
\* the requests that wait in the depth queues
Pending ==
    IF depth_queues = None THEN {}
    ELSE UNION {Range(depth_queues[t]) : t \in DTYPES}

\* C22: at every step of every composition attempt the graph is acyclic:
\* every edge goes from a function or constant vertex to a function vertex
\* created before it or to an output or sink vertex created after it, and
\* while a vertex's outputs are being connected none of its inputs is a
\* pending request or bound; validating a graph that sample returned does not
\* raise the cyclic-graph error.
C22_ComposerGraphsAcyclic ==
    /\ ~Cyclic
    /\ \A e \in Edges :
          /\ objs[e[1]].cls \in {"FuncVertex", "ConstVertex"}
          /\ IF objs[e[3]].cls = "FuncVertex" THEN e[3] < e[1]
             ELSE objs[e[3]].cls \in {"OutVertex", "SinkVertex"} /\ e[3] > e[1]
    /\ pc = "outputs" =>
          /\ \A r \in Pending : ~r.none => r.dst # frame.vertex
          /\ \A j \in 1..Len(argdeps[frame.vertex]) : argdeps[frame.vertex][j][2] = None
    /\ (pc = "returned" /\ ret.op \in {"_get_topo_order", "call", "straight_line"}) =>
          (ret.out.raised => ret.out.err # CyclicGraphError)

\* sample returned a graph in which a function feeds a function, and its
\* validation returned an order
C22_Witness ==
    /\ pc = "returned"
    /\ ret.op = "_get_topo_order" /\ ~ret.out.raised
    /\ \E e \in Edges : objs[e[1]].cls = "FuncVertex" /\ objs[e[3]].cls = "FuncVertex"

\* ---- the types of the composer's edges
\* the declared type of keyword kwd of vertex dst
KeywordType(dst, kwd) == DictGet(objs[dst].inp_type, kwd)

\* C23: every edge the composer creates connects an output slot whose
\* declared type is T to an input keyword whose declared type is T, be it an
\* edge between function vertices, from a constant vertex, or into an
\* output-marker or sink vertex.
C23_EdgesConnectEqualTypes ==
    /\ \A e \in Edges :
          /\ DictHas(objs[e[3]].inp_type, e[4])
          /\ e[2] \in 0..(VLen(objs[e[1]]) - 1)
          /\ SlotType(<< e[1], e[2] >>) = KeywordType(e[3], e[4])
    /\ \A slot \in GraphSlots : \A q \in Listed(slot) :
          << slot[1], slot[2], q[1], q[2] >> \in Edges

\* sample returned a graph in which a constant feeds a function's keyword
\* and the function feeds an output marker
C23_Witness ==
    /\ pc = "returned"
    /\ \E e \in Edges : objs[e[1]].cls = "ConstVertex" /\ objs[e[3]].cls = "FuncVertex"
    /\ \E e \in Edges : objs[e[1]].cls = "FuncVertex" /\ objs[e[3]].cls = "OutVertex"

\* a graph under composition in which a function feeds a function and a
\* sink; a graph in which a constant feeds an output marker
C23_FunctionAndSinkEdges ==
    /\ \E e \in Edges : objs[e[1]].cls = "FuncVertex" /\ objs[e[3]].cls = "FuncVertex"
    /\ \E e \in Edges : objs[e[1]].cls = "FuncVertex" /\ objs[e[3]].cls = "SinkVertex"
C23_ConstantToOutput ==
    \E e \in Edges : objs[e[1]].cls = "ConstVertex" /\ objs[e[3]].cls = "OutVertex"

\* ---- the closure at max_depth
\* an iteration has ended, the last one with the global depth at max_depth
EndedAtMaxDepth ==
    pc = "while" /\ Len(objs) > 0 /\ depth = request.max_depth
\* the types that have a literal generator
Generated == {t \in DTYPES : DTYPE_GENERATORS(t) # {}}

\* C25 (as stated): whenever an iteration ends with the global depth equal
\* to max_depth, the closure leaves no residual: for every type that has a
\* literal generator the frontier count is at most the goal count afterwards.
C25_AsStated ==
    EndedAtMaxDepth => \A t \in Generated : frontier[t] <= goal[t]

\* C25 (what the code does): the closure takes the one type the loop
\* variable typ was left at, the type of the function's last input; of that
\* type no residual is left, and every round of the closure feeds a new
\* constant of that type to the request it pops, through a new output marker
\* when the request is a graph output.
C25_ClosesLastTypeOnly ==
    /\ [](EndedAtMaxDepth =>
             (frame.typ \in Generated => frontier[frame.typ] <= goal[frame.typ]))
    /\ [][(pc = "closure" /\ pc' # "raised") =>
             LET typ == frame.typ
                 v == Len(objs) + 1
             IN  /\ frame'.typ = typ
                 /\ frontier' = [frontier EXCEPT ![typ] = @ - 1]
                 /\ Len(depth_queues'[typ]) = Len(depth_queues[typ]) - 1
                 /\ \A t \in DTYPES \ {typ} : depth_queues'[t] = depth_queues[t]
                 /\ objs'[v].cls = "ConstVertex" /\ objs'[v].value.t = typ
                 /\ \E e \in Edges' \ Edges :
                       /\ e[1] = v /\ e[2] = 0
                       /\ Edges' \ Edges = {e}
                       /\ IF outputs_hit' = outputs_hit
                          THEN objs' = Append(objs, objs'[v]) /\ e[3] < v
                          ELSE /\ outputs_hit' = outputs_hit + 1
                               /\ Len(objs') = v + 1
                               /\ objs'[v + 1] = OutVertex(typ)
                               /\ e[3] = v + 1]_vars

\* an iteration ended at max_depth and the closure left a residual of a
\* type that has a generator, having closed another type with a constant
C25_ResidualLeft ==
    /\ EndedAtMaxDepth
    /\ \E t \in Generated : frontier[t] > goal[t]
    /\ \E v \in Range(vertices) : objs[v].cls = "ConstVertex"

\* a closure closed the residual of its type with constants and the graph
\* was returned
C25_Closed ==
    /\ pc = "returned" /\ depth = request.max_depth
    /\ \E v \in Range(vertices) : objs[v].cls = "ConstVertex"

\* ---- every output is consumed
\* an iteration of the composer's loop has ended
IterationEnded == pc \in {"while", "aborted", "returned"} /\ Len(objs) > 0
\* the consumers slot lists, as vertex classes
ListedClasses(slot) == {objs[q[1]].cls : q \in Listed(slot)}

\* C24: at the end of every composer iteration every output slot of every
\* function vertex and of every constant vertex has at least one consumer; a
\* function's slot has a sink, and nothing else, exactly when it serviced no
\* pending request; the only open slots belong to output-marker vertices,
\* and their number equals outputs_hit, which never exceeds the number of
\* requested outputs.
C24_EveryOutputConsumed ==
    IterationEnded =>
        /\ \A slot \in GraphSlots :
              objs[slot[1]].cls \in {"FuncVertex", "ConstVertex"} =>
                  /\ adjacency[slot[1]][slot[2] + 1] # None
                  /\ Listed(slot) # {}
                  /\ "SinkVertex" \in ListedClasses(slot) =>
                        /\ objs[slot[1]].cls = "FuncVertex"
                        /\ Len(adjacency[slot[1]][slot[2] + 1]) = 1
                  /\ ListedClasses(slot) \subseteq {"SinkVertex", "FuncVertex", "OutVertex"}
        /\ \A slot \in OpenSlots : objs[slot[1]].cls = "OutVertex"
        /\ Cardinality(OpenSlots) = outputs_hit
        /\ Cardinality({v \in Range(vertices) : objs[v].cls = "OutVertex"}) = outputs_hit
        /\ outputs_hit <= Len(request.output_type)

\* an iteration ended with a function whose output went to a sink and a
\* function whose output serviced a graph output
C24_Witness ==
    /\ IterationEnded
    /\ outputs_hit > 0
    /\ \E slot \in GraphSlots : ListedClasses(slot) = {"SinkVertex"}
    /\ \E slot \in GraphSlots :
          objs[slot[1]].cls = "FuncVertex" /\ "OutVertex" \in ListedClasses(slot)

\* an iteration ended with a constant that feeds a function's keyword
C24_ConstantConsumed ==
    /\ IterationEnded
    /\ \E slot \in GraphSlots :
          objs[slot[1]].cls = "ConstVertex" /\ "FuncVertex" \in ListedClasses(slot)

\* ---- depths
\* the depth of a vertex as the graph shows it: one more than the greatest
\* depth among the requests its outputs feed, a graph output being a request
\* of depth 0; 0 when it feeds sinks only
RECURSIVE VertexDepth(_)
VertexDepth(v) ==
    LET fed == UNION {Listed(<< v, e - 1 >>) : e \in 1..Len(adjacency[v])}
        depths == {IF objs[q[1]].cls = "OutVertex" THEN 1
                   ELSE IF objs[q[1]].cls = "SinkVertex" THEN 0
                   ELSE VertexDepth(q[1]) + 1 : q \in fed}
    IN  IF depths = {} THEN 0 ELSE CHOOSE d \in depths : \A c \in depths : c <= d
FuncVertices == {v \in Range(vertices) : objs[v].cls = "FuncVertex"}
\* the least depth among the entries of a queue that is not empty
LeastDepth(heap) ==
    CHOOSE d \in {heap[i].depth : i \in 1..Len(heap)} :
        \A i \in 1..Len(heap) : d <= heap[i].depth
\* heap lost the entry e and nothing else
Without(heap, after, e) ==
    /\ Len(after) = Len(heap) - 1
    /\ \A x \in Range(heap) :
          CountOf(after, x) = CountOf(heap, x) - (IF x = e THEN 1 ELSE 0)

\* C26: within one attempt the global depth never decreases; a new vertex's
\* depth is 1 plus the greatest depth among the requests it serviced (0 if
\* none), each serviced request being one of lowest depth among the pending
\* requests of its type; the attempt is aborted as soon as the global depth
\* exceeds max_depth, and no graph that sample returns holds a function
\* vertex of a depth greater than max_depth.
C26_DepthBookkeeping ==
    /\ [][(pc \in {"while", "outputs", "closure"}) => (depth' >= depth)]_vars
    /\ [](pc \in {"while", "outputs", "closure", "returned"} =>
             /\ depth <= request.max_depth
             /\ \A r \in Pending :
                   r.depth = IF r.none THEN 0 ELSE VertexDepth(r.dst)
             /\ pc = "outputs" => frame.fn_depth = VertexDepth(frame.vertex)
             /\ \A v \in FuncVertices :
                   (pc = "outputs" => v # frame.vertex) => VertexDepth(v) <= depth)
    /\ [](pc = "aborted" =>
             /\ depth > request.max_depth
             /\ depth = VertexDepth(frame.vertex))
    /\ [](pc = "returned" => \A v \in FuncVertices : VertexDepth(v) <= request.max_depth)
    /\ [][(pc \in {"outputs", "closure"} /\ pc' # "raised"
              /\ depth_queues' # depth_queues /\ frontier'[frame'.typ] < frontier[frame'.typ]) =>
             LET typ == frame'.typ
             IN  \E e \in Range(depth_queues[typ]) :
                    /\ e.depth = LeastDepth(depth_queues[typ])
                    /\ Without(depth_queues[typ], depth_queues'[typ], e)
                    /\ pc = "outputs" =>
                          frame'.fn_depth = Max2(frame.fn_depth, e.depth + 1)
                    /\ \E x \in Edges' \ Edges :
                          IF e.none THEN objs'[x[3]].cls = "OutVertex"
                          ELSE x[3] = e.dst /\ x[4] = e.kwd]_vars

\* sample returned a graph with a function vertex of depth 2, the global
\* depth
C26_Witness ==
    /\ pc = "returned"
    /\ \E v \in FuncVertices : VertexDepth(v) = 2 /\ depth = 2

\* a request was popped while a deeper request of its type stayed pending
C26_PoppedAmongDepths ==
    /\ pc = "outputs" /\ frame.used
    /\ \E r \in Range(depth_queues[frame.typ]) : r.depth >= frame.fn_depth

\* ---- the frontier, the queues and the graph
\* the pending requests of functions, as (vertex, keyword) pairs, and the
\* pending requests for graph outputs
PendingEntries == Flatten([n \in 1..3 |-> depth_queues[<< "str", "int", "float" >>[n]]])
PendingKeywords == {<< r.dst, r.kwd >> : r \in {r \in Pending : ~r.none}}
PendingOutputs == Len(SelectSeq(PendingEntries, LAMBDA r : r.none))
\* the input keywords of the function vertices that have no producer
UnboundKeywords ==
    {q \in GraphKeywords : objs[q[1]].cls = "FuncVertex" /\ ProducerOf(q) = None}

\* C27: at every loop-iteration boundary of an attempt the frontier count of
\* every type equals the number of pending requests in the type's queue, the
\* pending requests of functions are exactly the unbound input keywords of
\* the function vertices in the graph, each pending once, and the number of
\* pending output requests is the number of requested outputs minus
\* outputs_hit; a queue that is popped is not empty, and no input keyword is
\* fed by two producers.
C27_FrontierMatchesQueues ==
    /\ pc = "while" =>
          /\ \A t \in DTYPES : frontier[t] = Len(depth_queues[t])
          /\ PendingKeywords = UnboundKeywords
          /\ Len(PendingEntries) - PendingOutputs = Cardinality(PendingKeywords)
          /\ PendingOutputs = Len(request.output_type) - outputs_hit
          /\ \A r \in Pending :
                ~r.none => DictGet(objs[r.dst].inp_type, r.kwd)
                              \in {t \in DTYPES : r \in Range(depth_queues[t])}
    /\ (pc = "outputs" /\ OutputsLeft /\ frontier[typ_here] > 0) =>
          Len(depth_queues[typ_here]) > 0
    /\ pc = "closure" => Len(depth_queues[frame.typ]) > 0
    /\ pc \in {"while", "outputs", "closure", "aborted", "returned"} =>
          \A q \in GraphKeywords : Listings(q) <= 1

\* a loop head with an output satisfied, an output pending and the inputs
\* of a function pending
C27_Witness ==
    /\ pc = "while"
    /\ outputs_hit > 0
    /\ PendingOutputs > 0
    /\ Cardinality(PendingKeywords) >= 2
    /\ \E q \in GraphKeywords : objs[q[1]].cls = "FuncVertex" /\ ProducerOf(q) # None

====
